---- MODULE Spec2Model ----
(***************************************************************************)
(* Nonefinity SDK: the SSE streaming client (NonefinityClient.streamMessage *)
(* and NonefinitySimpleClient.streamChat), the event-line parser, and the  *)
(* accumulator of useNonefinityChat.sendMessage / ChatWidget.handleSend.   *)
(*                                                                         *)
(* Text.  A JavaScript string is a sequence of text pieces; the string is  *)
(* the concatenation of its pieces.  The pieces are "\n", " ", the two     *)
(* line prefixes "event: " and "data: ", and atoms that contain neither a  *)
(* newline nor a blank (an event name, a JSON text, a word).  Chunk        *)
(* boundaries, the "\n\n" delimiter, trim() and the two regular            *)
(* expressions are computed on pieces.                                     *)
(*                                                                         *)
(* Values.  A JavaScript value is a record [t, v]: t is the type tag and v *)
(* the content (a text for "str", a field map for "obj", the JSON text of  *)
(* an object whose fields the code never reads for "json").                *)
(***************************************************************************)
EXTENDS Integers, Sequences, FiniteSets, TLC

VARIABLES
    impl,            \* which client class streams: "full" (NonefinityClient) or "simple" (NonefinitySimpleClient)
    ui,              \* who consumes the events: "none" (a recording sink), "hook" or "widget"
    server,          \* the kind of conversation the server holds (which frames it sends)
    now,             \* Date.now()
    call,            \* per turn slot: the streamMessage / streamChat invocation
    turn,            \* per turn slot: the sendMessage / handleSend invocation and its locals
    messages,        \* useState: messages
    isStreaming,     \* useState: isStreaming
    isThinking,      \* useState: isThinking
    streamingState,  \* useState: streamingState {content, tools}
    errorMessage,    \* useState: errorMessage (<<>> is null, <<m>> is the message m)
    onErrorCalls,    \* the errors handed to the onError prop, in order
    nreads,          \* number of chunks read so far, over all turns
    rest,            \* the NonefinityClient: its configuration, the headers it has sent, what request() returned
    simple           \* the NonefinitySimpleClient: its session, the browser's storage, its chat() calls

\* the state of a streaming call and of the turn that makes it
streamVars == <<impl, ui, server, now, call, turn, messages, isStreaming, isThinking,
                streamingState, errorMessage, onErrorCalls, nreads>>

vars == <<streamVars, rest, simple>>

----------------------------------------------------------------------------
(* Bounds *)

MaxTurns == 2
MaxBody == 6
MaxReads == 4
MaxNow == 1
MaxFrames == 1
MaxPad == 1
MaxRequests == 2
MaxCalls == 2

Slots == 1..MaxTurns

----------------------------------------------------------------------------
(* Text *)

NL == "\n"
SP == " "
EV == "event: "
DA == "data: "

SetMin(S) == CHOOSE x \in S : \A y \in S : x <= y
SetMax(S) == CHOOSE x \in S : \A y \in S : x >= y

Last(s) == s[Len(s)]
Front(s) == SubSeq(s, 1, Len(s) - 1)

\* String.prototype.trim(): the text without its leading and trailing white space
Trim(s) ==
    LET keep == {i \in 1..Len(s) : s[i] \notin {NL, SP}}
    IN  IF keep = {} THEN <<>> ELSE SubSeq(s, SetMin(keep), SetMax(keep))

\* s.split(sep) for a two-piece separator <<a, b>>: leftmost, non-overlapping
RECURSIVE Split2(_, _, _)
Split2(s, a, b) ==
    LET hits == {i \in 1..(Len(s) - 1) : s[i] = a /\ s[i + 1] = b}
    IN  IF hits = {} THEN <<s>>
        ELSE LET i == SetMin(hits)
             IN  <<SubSeq(s, 1, i - 1)>> \o Split2(SubSeq(s, i + 2, Len(s)), a, b)

\* buffer.split("\n\n")
SplitFrames(s) == Split2(s, NL, NL)

\* the lines of a text: what ^ and $ delimit under the m flag
RECURSIVE SplitLines(_)
SplitLines(s) ==
    LET hits == {i \in 1..Len(s) : s[i] = NL}
    IN  IF hits = {} THEN <<s>>
        ELSE LET i == SetMin(hits)
             IN  <<SubSeq(s, 1, i - 1)>> \o SplitLines(SubSeq(s, i + 1, Len(s)))

\* line.match(/^<prefix>(.+)$/m): the first line that starts with the
\* prefix and has at least one more character; the capture is the rest of it
MatchLines(lines, prefix) ==
    LET hits == {k \in 1..Len(lines) : Len(lines[k]) >= 2 /\ lines[k][1] = prefix}
    IN  IF hits = {} THEN [found |-> FALSE, cap |-> <<>>]
        ELSE [found |-> TRUE, cap |-> Tail(lines[SetMin(hits)])]

Match(frame, prefix) == MatchLines(SplitLines(frame), prefix)

----------------------------------------------------------------------------
(* Values *)

Fields == {"name", "arguments", "id", "result", "content", "is_delta", "done",
           "message", "raw", "parseError", "model", "messages"}

Undef == [t |-> "undefined", v |-> <<>>]
JNull == [t |-> "null", v |-> <<>>]
JStr(s) == [t |-> "str", v |-> s]
JBool(b) == [t |-> "bool", v |-> b]
JArr(a) == [t |-> "arr", v |-> a]
JOpaque(text) == [t |-> "json", v |-> text]
\* an object literal: r is a record of the fields that are present
Obj(r) == [t |-> "obj", v |-> [k \in Fields |-> IF k \in DOMAIN r THEN r[k] ELSE Undef]]
Obj0 == [t |-> "obj", v |-> [k \in Fields |-> Undef]]

\* value.field, also value?.field: undefined unless the value is an object that has it
Get(x, k) == IF x.t = "obj" THEN x.v[k] ELSE Undef

\* ToBoolean
Truthy(x) ==
    CASE x.t = "undefined" -> FALSE
      [] x.t = "null" -> FALSE
      [] x.t = "str" -> x.v # <<>>
      [] x.t = "bool" -> x.v
      [] OTHER -> TRUE

\* a ?? b
Nullish(x) == x.t \in {"undefined", "null"}

\* `${x}` of a value
TextOf(x) ==
    CASE x.t = "str" -> x.v
      [] x.t = "json" -> <<"[object Object]">>
      [] x.t = "obj" -> <<"[object Object]">>
      [] OTHER -> <<x.t>>

\* JSON.stringify(x) for the values a tool result can be
Stringify(x) ==
    CASE x.t = "json" -> x.v
      [] x.t = "str" -> <<"\"">> \o x.v \o <<"\"">>
      [] OTHER -> <<x.t>>

----------------------------------------------------------------------------
(* JSON texts.  Each atom below is one JSON text; JSONValue is what         *)
(* JSON.parse returns for it.                                              *)

T_EMPTY == "{}"
T_START == "\"[START]\""
T_END == "\"[END]\""
T_HI == "{\"content\":\"hi\",\"is_delta\":false}"
T_THERE == "{\"content\":\" there\",\"is_delta\":true}"
T_NOCONTENT == "{\"content\":\"\",\"is_delta\":false}"
T_CALL_ID == "{\"name\":\"search\",\"arguments\":{\"q\":\"x\"},\"id\":\"t1\"}"
T_CALL == "{\"name\":\"search\",\"arguments\":{\"q\":\"x\"}}"
T_RES_ID == "{\"id\":\"t1\",\"result\":\"42\"}"
T_RES == "{\"name\":\"search\",\"result\":\"43\"}"
T_RES2 == "{\"name\":\"search\",\"result\":\"44\"}"
T_RES_OBJ == "{\"name\":\"search\",\"result\":{\"n\":1}}"
T_RES_SYN == "{\"id\":\"search-1\",\"result\":\"45\"}"
T_ERR == "{\"message\":\"boom\"}"
T_DONE == "{\"done\":true}"
T_STRING == "\"hello\""
T_DOUBLE == "\"{\\\"content\\\":\\\"hi\\\",\\\"is_delta\\\":false}\""
T_NESTED == "{\"model\":{\"messages\":[{\"content\":\"yo\"}]}}"
T_NULL == "null"
\* a text that is not JSON
T_BAD == "{oops"

ARGS_X == JOpaque(<<"{\"q\":\"x\"}">>)

JSONTexts == {T_EMPTY, T_START, T_END, T_HI, T_THERE, T_NOCONTENT, T_CALL_ID,
              T_CALL, T_RES_ID, T_RES, T_RES2, T_RES_OBJ, T_ERR, T_DONE, T_STRING,
              T_DOUBLE, T_NESTED, T_NULL, T_RES_SYN}

JSONValue(a) ==
    CASE a = T_EMPTY -> Obj0
      [] a = T_START -> JStr(<<"[START]">>)
      [] a = T_END -> JStr(<<"[END]">>)
      [] a = T_HI -> Obj([content |-> JStr(<<"hi">>), is_delta |-> JBool(FALSE)])
      [] a = T_THERE -> Obj([content |-> JStr(<<" there">>), is_delta |-> JBool(TRUE)])
      [] a = T_NOCONTENT -> Obj([content |-> JStr(<<>>), is_delta |-> JBool(FALSE)])
      [] a = T_CALL_ID -> Obj([name |-> JStr(<<"search">>), arguments |-> ARGS_X,
                               id |-> JStr(<<"t1">>)])
      [] a = T_CALL -> Obj([name |-> JStr(<<"search">>), arguments |-> ARGS_X])
      [] a = T_RES_ID -> Obj([id |-> JStr(<<"t1">>), result |-> JStr(<<"42">>)])
      [] a = T_RES -> Obj([name |-> JStr(<<"search">>), result |-> JStr(<<"43">>)])
      [] a = T_RES2 -> Obj([name |-> JStr(<<"search">>), result |-> JStr(<<"44">>)])
      [] a = T_RES_OBJ -> Obj([name |-> JStr(<<"search">>),
                               result |-> JOpaque(<<"{\"n\":1}">>)])
      [] a = T_RES_SYN -> Obj([id |-> JStr(<<"search", "-", "1">>),
                                result |-> JStr(<<"45">>)])
      [] a = T_ERR -> Obj([message |-> JStr(<<"boom">>)])
      [] a = T_DONE -> Obj([done |-> JBool(TRUE)])
      [] a = T_STRING -> JStr(<<"hello">>)
      [] a = T_DOUBLE -> JStr(<<T_HI>>)
      [] a = T_NESTED -> Obj([model |-> Obj([messages |->
                                  JArr(<<Obj([content |-> JStr(<<"yo">>)])>>)])])
      [] a = T_NULL -> JNull

\* JSON.parse(s): white space around the text is allowed; anything that is
\* not one JSON text is a SyntaxError
JSONParseTrimmed(t) ==
    IF Len(t) = 1 /\ t[1] \in JSONTexts
    THEN [ok |-> TRUE, value |-> JSONValue(t[1])]
    ELSE [ok |-> FALSE, value |-> Undef]

JSONParse(s) == JSONParseTrimmed(Trim(s))

\* the first and the last character of a trimmed text look like a JSON
\* object, array or string
LooksLikeJSON(t) ==
    /\ t # <<>>
    /\ t[1] \in JSONTexts \ {T_NULL}
    /\ Last(t) \in JSONTexts \ {T_NULL}
    /\ (t[1] \in {T_START, T_END, T_STRING, T_DOUBLE}) =
       (Last(t) \in {T_START, T_END, T_STRING, T_DOUBLE})

----------------------------------------------------------------------------
(* Events and thrown values *)

Event(name, data) == [event |-> name, data |-> data]

\* new Error(message)
Err(m) == [isError |-> TRUE, message |-> m]
\* a rejection whose reason is not an Error instance
NonError == [isError |-> FALSE, message |-> <<"reason">>]

\* the failures fetch() and reader.read() reject with
NetErrors == {Err(<<"Failed to fetch">>), NonError}

----------------------------------------------------------------------------
(* useNonefinityChat: decodeEventPayload *)

\* one round of the while loop, for the trimmed text and what JSON.parse
\* makes of it: [stop, value]
DecodeParsed(trimmed, r) ==
    IF trimmed = <<>> THEN [stop |-> TRUE, value |-> JStr(<<>>)]
    ELSE IF ~LooksLikeJSON(trimmed) THEN [stop |-> TRUE, value |-> JStr(trimmed)]
    ELSE IF ~r.ok THEN [stop |-> TRUE, value |-> JStr(trimmed)]
    ELSE [stop |-> FALSE, value |-> r.value]

DecodeTrimmed(trimmed) == DecodeParsed(trimmed, JSONParse(trimmed))

\* one round of the while loop: [stop, value]
DecodeRound(cur) == DecodeTrimmed(Trim(cur.v))

\* the second round, after a first round r1
DecodeAgain(r1) ==
    IF r1.stop \/ r1.value.t # "str" THEN r1.value
    ELSE DecodeRound(r1.value).value

decodeEventPayload(value) ==
    IF value.t # "str" THEN value
    ELSE DecodeAgain(DecodeRound(value))

----------------------------------------------------------------------------
(* The accumulator: the onEvent callback of sendMessage / handleSend.       *)
(* W is what the callback reads and writes: the locals of the turn          *)
(* (accumulatedContent, accumulatedTools), the React state, and the record  *)
(* of the events delivered (sink).  streamingState.tools is a Map: a        *)
(* sequence of entries with distinct ids, in insertion order.              *)

UNKNOWN == <<"unknown">>
Stamp(t) == ToString(t)
\* `${toolName}-${Date.now()}`
SynthId(toolName, t) == JStr(TextOf(toolName) \o <<"-", Stamp(t)>>)

\* Map.has / Map.get: the index of the entry with this key, 0 when absent
IndexOfId(tools, id) ==
    LET hits == {i \in 1..Len(tools) : tools[i].id = id}
    IN  IF hits = {} THEN 0 ELSE SetMin(hits)

\* the for..of loop over newTools.entries(): first entry of that name still "input-available"
FirstAwaiting(tools, toolName) ==
    LET hits == {i \in 1..Len(tools) :
                    tools[i].name = toolName /\ tools[i].state = "input-available"}
    IN  IF hits = {} THEN 0 ELSE SetMin(hits)

\* accumulatedTools.findIndex(t => incomingId ? t.id === incomingId : t.name === toolName)
FindIndex(acc, incomingId, toolName) ==
    LET hits == {i \in 1..Len(acc) :
                    IF Truthy(incomingId) THEN acc[i].id = incomingId
                                          ELSE acc[i].name = toolName}
    IN  IF hits = {} THEN 0 ELSE SetMin(hits)

\* the payload the branches read: the hook decodes event.data first
PayloadOf(mode, e) == IF mode = "hook" THEN decodeEventPayload(e.data) ELSE e.data

\* errorMsg of the error branch
ErrorMsgOf(mode, payload) ==
    IF mode = "hook" /\ payload.t = "str" THEN payload.v
    ELSE IF Truthy(Get(payload, "message")) THEN TextOf(Get(payload, "message"))
    ELSE <<"An error occurred">>

\* content of the ai_result branch
AiContentOf(mode, payload) ==
    IF mode = "hook" /\ payload.t = "str" THEN payload
    ELSE IF Truthy(Get(payload, "content")) THEN Get(payload, "content")
    ELSE JStr(<<>>)

ErrorWith(W, errorMsg) ==
    [W EXCEPT !.errorMessage = <<errorMsg>>,
              !.isStreaming = FALSE,
              !.isThinking = FALSE,
              !.onErrorCalls = Append(@, Err(errorMsg))]

OnError(W, payload, mode) == ErrorWith(W, ErrorMsgOf(mode, payload))

OnStart(W) ==
    [W EXCEPT !.streamingState = [content |-> <<>>, tools |-> <<>>],
              !.isStreaming = TRUE,
              !.isThinking = TRUE]

\* if (!newTools.has(incomingId)) newTools.set(incomingId, {...})
AddCall(tools, incomingId, toolName, args) ==
    IF IndexOfId(tools, incomingId) = 0
    THEN Append(tools, [id |-> incomingId, name |-> toolName, args |-> args,
                        state |-> "input-available", content |-> Undef])
    ELSE tools

ToolCallWith(W, incomingId, toolName, args) ==
    [W EXCEPT !.isThinking = FALSE,
              !.streamingState.tools = AddCall(@, incomingId, toolName, args),
              !.accumulatedTools = Append(@, [id |-> incomingId, name |-> toolName,
                                              arguments |-> args, result |-> Undef])]

ToolCallNamed(W, payload, t, toolName) ==
    ToolCallWith(W,
                 IF Truthy(Get(payload, "id")) THEN Get(payload, "id") ELSE SynthId(toolName, t),
                 toolName,
                 IF Truthy(Get(payload, "arguments")) THEN Get(payload, "arguments") ELSE Obj0)

OnToolCalls(W, payload, t) ==
    ToolCallNamed(W, payload, t,
                  IF Truthy(Get(payload, "name")) THEN Get(payload, "name") ELSE JStr(UNKNOWN))

\* toolId of the tool_result branch: the incoming id when the Map has it,
\* else the id of the first entry of that name still awaiting its result,
\* else a synthesized one
MatchById(tools, incomingId) ==
    IF Truthy(incomingId) THEN IndexOfId(tools, incomingId) ELSE 0

ToolIdAt(tools, toolName, t, byName) ==
    IF byName # 0 THEN tools[byName].id ELSE SynthId(toolName, t)

ToolIdFrom(tools, toolName, t, byId) ==
    ToolIdAt(tools, toolName, t, IF byId # 0 THEN byId ELSE FirstAwaiting(tools, toolName))

ToolIdOf(tools, incomingId, toolName, t) ==
    ToolIdFrom(tools, toolName, t, MatchById(tools, incomingId))

\* newTools.set(toolId, {...}): at is the index of toolId in the Map, 0 when absent
SetEntry(tools, at, entry) ==
    IF at # 0 THEN [tools EXCEPT ![at] = entry] ELSE Append(tools, entry)

SetResultAt(tools, toolId, toolName, toolContent, at) ==
    SetEntry(tools, at,
             [id |-> toolId, name |-> toolName,
              args |-> IF at # 0 /\ Truthy(tools[at].args) THEN tools[at].args ELSE Obj0,
              content |-> toolContent, state |-> "output-available"])

SetResult(tools, toolId, toolName, toolContent) ==
    SetResultAt(tools, toolId, toolName, toolContent, IndexOfId(tools, toolId))

\* the update of accumulatedTools: idx is what findIndex returned (0 for -1)
SaveResultAt(acc, incomingId, toolName, contentToSave, t, idx) ==
    IF idx # 0 THEN [acc EXCEPT ![idx].result = contentToSave]
    ELSE Append(acc, [id |-> IF Truthy(incomingId) THEN incomingId
                              ELSE SynthId(toolName, t),
                      name |-> toolName, arguments |-> Undef,
                      result |-> contentToSave])

SaveResult(acc, incomingId, toolName, toolContent, t) ==
    SaveResultAt(acc, incomingId, toolName,
                 IF toolContent.t = "str" THEN toolContent ELSE JStr(Stringify(toolContent)),
                 t, FindIndex(acc, incomingId, toolName))

ToolResultWith(W, incomingId, toolName, toolContent, t) ==
    [W EXCEPT !.streamingState.tools =
                  SetResult(@, ToolIdOf(@, incomingId, toolName, t), toolName, toolContent),
              !.accumulatedTools = SaveResult(@, incomingId, toolName, toolContent, t)]

OnToolResult(W, payload, t) ==
    ToolResultWith(W, Get(payload, "id"),
                   IF Truthy(Get(payload, "name")) THEN Get(payload, "name") ELSE JStr(UNKNOWN),
                   IF ~Nullish(Get(payload, "result")) THEN Get(payload, "result")
                   ELSE IF ~Nullish(Get(payload, "content")) THEN Get(payload, "content")
                   ELSE JStr(<<>>),
                   t)

\* a delta that overwrites instead of appending
AppendContent_Overwrite(acc, content) == TextOf(content)

\* accumulatedContent += content  /  accumulatedContent = content
AppendContent(acc, content) == acc \o TextOf(content)
ReplaceContent(acc, content) == TextOf(content)

SetContent(W, newContent) ==
    [W EXCEPT !.isThinking = FALSE,
              !.accumulatedContent = newContent,
              !.streamingState.content = newContent]

AiResultWith(W, content, isDelta) ==
    IF Truthy(content)
    THEN SetContent(W, IF isDelta THEN AppendContent(W.accumulatedContent, content)
                       ELSE ReplaceContent(W.accumulatedContent, content))
    ELSE W

OnAiResult(W, payload, mode) ==
    AiResultWith(W, AiContentOf(mode, payload), Get(payload, "is_delta") = JBool(TRUE))

\* if (payloadRecord?.done === true) setIsStreaming(false)
OnDoneFlag(W, payload) ==
    IF Get(payload, "done") = JBool(TRUE) THEN [W EXCEPT !.isStreaming = FALSE] ELSE W

\* a callback that takes an event of a kind it does not know for an ai_result
Branch_Fold(W, e, payload, t, mode) ==
    IF e.event = <<"tool_calls">> THEN OnToolCalls(W, payload, t)
    ELSE IF e.event \in {<<"tool_result">>, <<"tool_results">>} THEN OnToolResult(W, payload, t)
    ELSE OnAiResult(W, payload, mode)

\* the branches of the callback, for the payload the event carries; t is Date.now()
Branch(W, e, payload, t, mode) ==
    IF e.event = <<"tool_calls">> THEN OnToolCalls(W, payload, t)
    ELSE IF e.event \in {<<"tool_result">>, <<"tool_results">>} THEN OnToolResult(W, payload, t)
    ELSE IF e.event = <<"ai_result">> THEN OnAiResult(W, payload, mode)
    ELSE W

AccumulatePayload(W, e, payload, t, mode) ==
    IF e.event = <<"error">> THEN OnError(W, payload, mode)
    ELSE IF e.event = <<"start">> THEN OnStart(W)
    ELSE OnDoneFlag(Branch(W, e, payload, t, mode), payload)

Accumulate(W, e, t, mode) == AccumulatePayload(W, e, PayloadOf(mode, e), t, mode)

\* the events a direct caller's callback can tell apart: the synthetic and
\* the server's "error" events, the events that report a parse error, the others
KindOf(e) ==
    IF e.event = <<"error">> THEN "error"
    ELSE IF Get(e.data, "parseError") # Undef THEN "parseError"
    ELSE "plain"

SinkKinds == {"plain", "parseError", "error"}

\* what a direct caller's callback throws
SinkError == Err(<<"sink">>)

\* onEvent(e) of a direct caller: the call is recorded, and the callback
\* throws on the kinds of event it throws on
Record(W, e) ==
    [W EXCEPT !.sink = Append(@, e),
              !.raised = IF KindOf(e) \in W.throwsOn THEN <<SinkError>> ELSE @]

\* onEvent(e): sink records the event; the hook and the widget fold it
Deliver(W, e, t, mode) ==
    IF mode = "none" THEN Record(W, e)
    ELSE Accumulate([W EXCEPT !.sink = Append(@, e)], e, t, mode)

----------------------------------------------------------------------------
(* The event-line parser: processSSELine of the two clients.  Each returns  *)
(* the events it hands to onEvent for one frame: none or one.              *)

ParseErrorOf(dataStr, text) ==
    Obj([raw |-> JStr(dataStr), parseError |-> JStr(<<text>>)])

ParseErrorData(dataStr) == ParseErrorOf(dataStr, "SyntaxError")

\* NonefinitySimpleClient only: the content extracted from a parsed payload
\* (direct content field, else the last of model.messages), Undef when none
ExtractContent(data) ==
    LET msgs == Get(Get(data, "model"), "messages")
        lastMessage == IF msgs.t = "arr" /\ msgs.v # <<>> THEN Last(msgs.v) ELSE Undef
    IN  IF Truthy(Get(data, "content")) THEN Get(data, "content")
        ELSE IF msgs.t = "arr" /\ Truthy(Get(lastMessage, "content"))
             THEN Get(lastMessage, "content")
        ELSE Undef

\* NonefinitySimpleClient: the body of the try block after the sentinels
SimpleEvent(eventType, data, content) ==
    IF Truthy(content) THEN Event(eventType, Obj([content |-> content, raw |-> data]))
    ELSE Event(eventType, data)

SimpleData(eventType, dataStr, ok, data) ==
    IF ~ok \/ Nullish(data) THEN Event(eventType, ParseErrorData(dataStr))
    ELSE SimpleEvent(eventType, data, ExtractContent(data))

\* the second JSON.parse, tried when the first gave a string
SimpleSecond(eventType, dataStr, first, second) ==
    SimpleData(eventType, dataStr, first.ok, IF second.ok THEN second.value ELSE first.value)

SimpleFirst(eventType, dataStr, first) ==
    SimpleSecond(eventType, dataStr, first,
                 IF first.ok /\ first.value.t = "str" THEN JSONParse(first.value.v)
                 ELSE [ok |-> FALSE, value |-> Undef])

SimpleDecode(eventType, dataStr) == SimpleFirst(eventType, dataStr, JSONParse(dataStr))

\* NonefinityClient: the body of the try block after the sentinels
FullParsed(eventType, dataStr, r) ==
    IF r.ok THEN Event(eventType, r.value)
    ELSE Event(eventType, ParseErrorData(dataStr))

FullDecode(eventType, dataStr) == FullParsed(eventType, dataStr, JSONParse(dataStr))

\* a parser without the "[START]" sentinel
ParseData_NoStart(eventType, dataStr, trimmed, client) ==
    IF trimmed = <<T_END>> THEN Event(eventType, Obj([done |-> JBool(TRUE)]))
    ELSE IF client = "simple" THEN SimpleDecode(eventType, dataStr)
    ELSE FullDecode(eventType, dataStr)

\* the event for an event type and a data string, after the early return
ParseData(eventType, dataStr, trimmed, client) ==
    IF trimmed = <<T_START>> THEN Event(<<"start">>, Obj0)
    ELSE IF trimmed = <<T_END>> THEN Event(eventType, Obj([done |-> JBool(TRUE)]))
    ELSE IF client = "simple" THEN SimpleDecode(eventType, dataStr)
    ELSE FullDecode(eventType, dataStr)

ParseTyped(eventType, dataStr, client) ==
    ParseData(eventType, dataStr, Trim(dataStr), client)

\* a parser that reports every event as "message"
EventTypeOf_Message(declared, client) == <<"message">>

\* NonefinitySimpleClient reports ai_result as "message"
EventTypeOf(declared, client) ==
    IF client = "simple" /\ declared = <<"ai_result">> THEN <<"message">> ELSE declared

\* a parser without the test if (eventMatch || dataMatch)
ParseMatched_Always(eventMatch, dataMatch, client) ==
    <<ParseTyped(EventTypeOf(IF eventMatch.found THEN eventMatch.cap ELSE <<"message">>,
                             client),
                 IF dataMatch.found THEN dataMatch.cap ELSE <<T_EMPTY>>,
                 client)>>

ParseMatched(eventMatch, dataMatch, client) ==
    IF ~(eventMatch.found \/ dataMatch.found) THEN <<>>
    ELSE <<ParseTyped(EventTypeOf(IF eventMatch.found THEN eventMatch.cap ELSE <<"message">>,
                                  client),
                      IF dataMatch.found THEN dataMatch.cap ELSE <<T_EMPTY>>,
                      client)>>

ParseFrame(line, client) == ParseMatched(Match(line, EV), Match(line, DA), client)

\* processSSELine(line, onEvent)
\* a parser that gives up on the stream after a frame it could not parse
DeliverAll_Abort(W, evs, t, mode) ==
    IF evs = <<>> THEN W
    ELSE IF \E i \in 1..Len(W.sink) : Get(W.sink[i].data, "parseError") # Undef THEN W
    ELSE Deliver([W EXCEPT !.nev = @ + 1], evs[1], t, mode)

DeliverAll(W, evs, t, mode) ==
    IF evs = <<>> THEN W
    ELSE Deliver([W EXCEPT !.nev = @ + 1], evs[1], t, mode)

\* the event of the catch block of processSSELine for what was thrown in
\* the try block, String(e) being text
CaughtMatched(eventMatch, dataMatch, client, text) ==
    Event(EventTypeOf(IF eventMatch.found THEN eventMatch.cap ELSE <<"message">>, client),
          ParseErrorOf(IF dataMatch.found THEN dataMatch.cap ELSE <<T_EMPTY>>, text))

Caught(line, client, text) == CaughtMatched(Match(line, EV), Match(line, DA), client, text)

\* onEvent threw: inside the try block the catch block calls onEvent again,
\* with the error as parseError; inside the catch block the error leaves
\* processSSELine
OnRaised(W, evs, inCatch, caught, t, mode) ==
    IF W.raised = <<>> \/ evs = inCatch THEN W
    ELSE Deliver([W EXCEPT !.raised = <<>>], caught, t, mode)

processSSELine(W, line, t, mode, client) ==
    OnRaised(DeliverAll(W, ParseFrame(line, client), t, mode),
             ParseFrame(line, client), <<Caught(line, client, "SyntaxError")>>,
             Caught(line, client, "Error: sink"), t, mode)

\* for (const line of lines) { if (line.trim()) processSSELine(line, onEvent) }
RECURSIVE ProcessLines(_, _, _, _, _)
ProcessLines(W, lines, t, mode, client) ==
    IF lines = <<>> \/ W.raised # <<>> THEN W
    ELSE ProcessLines(IF Trim(Head(lines)) # <<>>
                      THEN processSSELine(W, Head(lines), t, mode, client) ELSE W,
                      Tail(lines), t, mode, client)

\* a processSSEBuffer that decodes nothing
processSSEBuffer_Drop(W, buffer, t, mode, client) == W

\* processSSEBuffer(buffer, onEvent)
processSSEBuffer(W, buffer, t, mode, client) ==
    ProcessLines(W, SplitFrames(buffer), t, mode, client)

\* a read loop that forgets the incomplete frame: buffer = ""
KeepLast_Forget(lines) == <<>>

\* lines.pop() || ""
KeepLast(lines) == Last(lines)

\* one turn of the read loop for a chunk of text: [buffer, W]
OnLines(W, lines, t, mode, client) ==
    [buffer |-> KeepLast(lines),
     W |-> ProcessLines(W, Front(lines), t, mode, client)]

OnChunk(W, buffer, chunk, t, mode, client) ==
    OnLines(W, SplitFrames(buffer \o chunk), t, mode, client)

\* a read loop that ignores what is left in the buffer at the end
OnEnd_Ignore(W, buffer, t, mode, client) == W

\* the read loop when the reader reports done
OnEnd(W, buffer, t, mode, client) ==
    IF Trim(buffer) # <<>> THEN processSSEBuffer(W, buffer, t, mode, client) ELSE W

\* the catch block of streamMessage / streamChat: the synthetic error event
UnknownMessage(client) ==
    IF client = "simple" THEN <<"Unknown error">> ELSE <<"Unknown stream error">>

SyntheticError(error, client) ==
    Event(<<"error">>,
          Obj([message |-> JStr(IF error.isError THEN error.message
                                ELSE UnknownMessage(client))]))

\* a catch block that forwards the failure twice
OnCatch_Twice(W, error, t, mode, client) ==
    Deliver(Deliver(W, SyntheticError(error, client), t, mode),
            SyntheticError(error, client), t, mode)

OnCatch(W, error, t, mode, client) == Deliver(W, SyntheticError(error, client), t, mode)

\* chatComplete: the callback it gives to chat(), fullResponse being the text so far
OnComplete(fullResponse, e) ==
    IF e.event = <<"message">> /\ Truthy(Get(e.data, "content"))
    THEN fullResponse \o TextOf(Get(e.data, "content"))
    ELSE fullResponse

\* chatComplete: the text it returns when chat() has called the callback
\* with these events
RECURSIVE chatComplete(_, _)
chatComplete(fullResponse, evs) ==
    IF evs = <<>> THEN fullResponse
    ELSE chatComplete(OnComplete(fullResponse, evs[1]), Tail(evs))

----------------------------------------------------------------------------
(* NonefinityClient.request and saveConversation.  A reply is what fetch    *)
(* and response.json() give: fetch may reject, the body may fail to parse,  *)
(* and a parsed body is the record of its success, data, message and        *)
(* detail fields (Undef when absent).                                      *)

\* the parsed body of a response (the fields request reads)
Body(success, data, message, detail) ==
    [success |-> success, data |-> data, message |-> message, detail |-> detail]

Reply(rejects, ok, json) == [rejects |-> rejects, ok |-> ok, json |-> json]

Envelope(success, data, message, error) ==
    [success |-> success, data |-> data, message |-> message, error |-> error]

\* error instanceof Error ? error.message : "Unknown error"
RequestCatch(error) ==
    Envelope(JBool(FALSE), Undef, Undef,
             JStr(IF error.isError THEN error.message ELSE <<"Unknown error">>))

\* a request that takes a body with a bare data field for a raw object
request_NoShape(reply) ==
    IF reply.rejects # <<>> THEN RequestCatch(reply.rejects[1])
    ELSE IF reply.json = <<>> THEN RequestCatch(Err(<<"Unexpected end of JSON input">>))
    ELSE IF reply.json[1] = JNull THEN RequestCatch(Err(<<"Cannot read properties of null">>))
    ELSE LET data == reply.json[1]
         IN  IF ~reply.ok
             THEN Envelope(JBool(FALSE), Undef, Undef,
                           IF Truthy(data.message) THEN data.message
                           ELSE IF Truthy(data.detail) THEN data.detail
                           ELSE JStr(<<"Request failed">>))
             ELSE IF data.success.t # "undefined"
                  THEN Envelope(data.success, data.data, data.message, Undef)
             ELSE Envelope(JBool(TRUE), data, Undef, Undef)

\* request, from the await of fetch on: the reply is what fetch and
\* response.json() do (json is <<>> when the body is not JSON)
request(reply) ==
    IF reply.rejects # <<>> THEN RequestCatch(reply.rejects[1])
    ELSE IF reply.json = <<>> THEN RequestCatch(Err(<<"Unexpected end of JSON input">>))
    ELSE IF reply.json[1] = JNull THEN RequestCatch(Err(<<"Cannot read properties of null">>))
    ELSE LET data == reply.json[1]
         IN  IF ~reply.ok
             THEN Envelope(JBool(FALSE), Undef, Undef,
                           IF Truthy(data.message) THEN data.message
                           ELSE IF Truthy(data.detail) THEN data.detail
                           ELSE JStr(<<"Request failed">>))
             ELSE IF data.success.t # "undefined"
                  THEN Envelope(data.success, data.data, data.message, Undef)
             ELSE IF data.data.t # "undefined"
                  THEN Envelope(JBool(TRUE), data.data, data.message, Undef)
             ELSE Envelope(JBool(TRUE), data, Undef, Undef)

saveConversation(reply) == request(reply)

\* the replies of the save-conversation endpoint
SaveReplies ==
    {Reply(<<>>, TRUE, <<Body(JBool(TRUE), JOpaque(<<"{\"saved\":2}">>), Undef, Undef)>>),
     Reply(<<>>, FALSE, <<Body(Undef, Undef, Undef, JStr(<<"Session not found">>))>>),
     Reply(<<Err(<<"Failed to fetch">>)>>, FALSE, <<>>)}

----------------------------------------------------------------------------
(* State *)

\* what getAuthToken does when it is there, and the token it returns
Providers == {"absent", "token", "null", "empty", "throws"}
ApiKeys == {Undef, JStr(<<>>), JStr(<<"key">>)}
AuthError == Err(<<"auth failed">>)
ProviderValue(provider) ==
    CASE provider = "token" -> JStr(<<"tok">>)
      [] provider = "empty" -> JStr(<<>>)
      [] OTHER -> JNull

\* a getToken that asks the provider first
getToken_ProviderFirst(apiKey, provider) ==
    IF provider = "throws" THEN [threw |-> <<AuthError>>, token |-> Undef, consulted |-> 1]
    ELSE IF provider # "absent"
    THEN [threw |-> <<>>, token |-> ProviderValue(provider), consulted |-> 1]
    ELSE [threw |-> <<>>, token |-> IF Truthy(apiKey) THEN apiKey ELSE JNull, consulted |-> 0]

\* getToken(): the token, how often getAuthToken was called, and in threw
\* the error when getAuthToken throws or rejects
getToken(apiKey, provider) ==
    IF Truthy(apiKey) THEN [threw |-> <<>>, token |-> apiKey, consulted |-> 0]
    ELSE IF provider = "absent" THEN [threw |-> <<>>, token |-> JNull, consulted |-> 0]
    ELSE IF provider = "throws"
    THEN [threw |-> <<AuthError>>, token |-> Undef, consulted |-> 1]
    ELSE [threw |-> <<>>, token |-> ProviderValue(provider), consulted |-> 1]

\* if (token) headers["Authorization"] = `Bearer ${token}`: the bearer
\* token of the header, <<>> when the header is absent
Bearer(token) == IF Truthy(token) THEN <<token>> ELSE <<>>

\* the headers of the POST of a streaming call: NonefinitySimpleClient
\* always sends its apiKey
StreamBearer(client, apiKey, tk) ==
    IF client = "simple" THEN <<apiKey>> ELSE Bearer(tk.token)

\* the client after a fetch of this kind with the token tk
Sent(r, kind, bearer, tk) ==
    [r EXCEPT !.consulted = @ + tk.consulted,
              !.sent = Append(@, [kind |-> kind, authorization |-> bearer])]

\* a NonefinityClient with this configuration, before any call
RestInit(apiKey, provider) ==
    [apiKey |-> apiKey, provider |-> provider, sent |-> <<>>, consulted |-> 0,
     results |-> <<>>]

CallInit ==
    [st |-> "idle", cause |-> "none", posts |-> 0, buffer |-> <<>>, body |-> <<>>,
     pos |-> 0, split |-> FALSE, errorText |-> <<>>, thrown |-> <<>>, sink |-> <<>>, nev |-> 0,
     recv |-> <<>>, throwsOn |-> {}]

\* no NonefinitySimpleClient session in play
NoSimple == <<>>

\* the calls of createSession() and chat() that can be in flight together
Procs == 1..MaxCalls

\* the id the server gives to the k-th session it creates
SessionIdOf(k) == JStr(<<"s", ToString(k)>>)

\* an id the caller of setSessionId has kept from before
KEPT_ID == JStr(<<"kept">>)

\* a call of createSession() or chat(): the session it streams to (target)
\* and the session id it resolves with (result)
ProcInit ==
    [pc |-> "idle", kind |-> "none", had |-> FALSE, target |-> Undef, result |-> Undef]

\* loadSessionId() in the constructor: the stored identifier, if it is truthy
Constructed(browser, storage) ==
    IF browser /\ storage # <<>> /\ Truthy(storage[1]) THEN storage[1] ELSE JNull

\* a saveSessionId that writes nothing
Saved_Nothing(browser, storage, id) == storage

\* saveSessionId(id): localStorage.setItem, in a browser only
Saved(browser, storage, id) == IF browser THEN <<id>> ELSE storage

\* a NonefinitySimpleClient just constructed, in a browser or not, with what
\* localStorage holds under "nonefinity_session_id" (<<>>: nothing)
SimpleInit(browser, storage) ==
    [browser |-> browser, storage |-> storage,
     sessionId |-> Constructed(browser, storage),
     created |-> 0, failed |-> FALSE, proc |-> [p \in Procs |-> ProcInit]]

TurnInit ==
    [pc |-> "idle", userText |-> <<>>, accumulatedContent |-> <<>>,
     accumulatedTools |-> <<>>, saves |-> 0, saved |-> <<>>, saveResp |-> <<>>]

EmptyStreamingState == [content |-> <<>>, tools |-> <<>>]

\* the state before any call, the callback of a direct caller throwing on
\* the kinds of event in throwsOn
InitThrowing(throwsOn) ==
    /\ now = 0
    /\ call = [s \in Slots |-> [CallInit EXCEPT !.throwsOn = throwsOn]]
    /\ turn = [s \in Slots |-> TurnInit]
    /\ messages = <<>>
    /\ isStreaming = FALSE
    /\ isThinking = FALSE
    /\ streamingState = EmptyStreamingState
    /\ errorMessage = <<>>
    /\ onErrorCalls = <<>>
    /\ nreads = 0

\* the callbacks of the model throw nothing unless said otherwise
InitStreamVars == InitThrowing({})

InitCommon == InitStreamVars /\ simple = NoSimple

\* a client of either class with a recording sink
InitStream ==
    /\ ui = "none"
    /\ server = "raw"
    /\ impl \in {"full", "simple"}
    /\ InitCommon
    /\ rest = RestInit(JStr(<<"key">>), "absent")

\* a client of either class with a recording sink, on a server of single frames
InitFrames ==
    /\ ui = "none"
    /\ server = "frames"
    /\ impl \in {"full", "simple"}
    /\ InitCommon
    /\ rest = RestInit(JStr(<<"key">>), "absent")

\* a client of either class on a server of single frames, with a callback
\* that throws on some kinds of event
InitSink ==
    /\ ui = "none"
    /\ server = "frames"
    /\ impl \in {"full", "simple"}
    /\ \E throwsOn \in SUBSET SinkKinds : throwsOn # {} /\ InitThrowing(throwsOn)
    /\ simple = NoSimple
    /\ rest = RestInit(JStr(<<"key">>), "absent")

\* a NonefinitySimpleClient whose chatComplete is called, on a server of answers
InitComplete ==
    /\ ui = "none"
    /\ server = "answers"
    /\ impl = "simple"
    /\ InitCommon
    /\ rest = RestInit(JStr(<<"key">>), "absent")

\* the hook or the widget, each on a NonefinityClient, for one turn
InitChat ==
    /\ ui \in {"hook", "widget"}
    /\ server \in {"text", "tools"}
    /\ impl = "full"
    /\ InitCommon
    /\ rest = RestInit(JStr(<<"key">>), "absent")

\* the hook or the widget, for one turn with the server that answers with text
InitText ==
    /\ InitChat
    /\ server = "text"

\* the hook or the widget with a user who sends up to MaxTurns messages
InitTurns ==
    /\ ui \in {"hook", "widget"}
    /\ server = "brief"
    /\ impl = "full"
    /\ InitCommon
    /\ rest = RestInit(JStr(<<"key">>), "absent")

\* the hook or the widget, for one turn with a server that marks events done
InitFlags ==
    /\ ui \in {"hook", "widget"}
    /\ server = "flags"
    /\ impl = "full"
    /\ InitCommon
    /\ rest = RestInit(JStr(<<"key">>), "absent")

\* the hook or the widget, for one turn with a server that names its results
InitIds ==
    /\ ui \in {"hook", "widget"}
    /\ server = "ids"
    /\ impl = "full"
    /\ InitCommon
    /\ rest = RestInit(JStr(<<"key">>), "absent")

\* a NonefinityClient of any configuration, called directly
InitRequest ==
    /\ ui = "none"
    /\ server = "raw"
    /\ impl = "full"
    /\ InitCommon
    /\ \E apiKey \in ApiKeys : \E provider \in Providers : rest = RestInit(apiKey, provider)

\* a NonefinitySimpleClient, in a browser whose storage is empty or holds an
\* identifier from an earlier visit, or outside a browser
InitSession ==
    /\ ui = "none"
    /\ server = "raw"
    /\ impl = "simple"
    /\ InitStreamVars
    /\ rest = RestInit(JStr(<<"key">>), "absent")
    /\ \E browser \in BOOLEAN :
          \E storage \in IF browser THEN {<<>>, <<KEPT_ID>>} ELSE {<<>>} :
              simple = SimpleInit(browser, storage)

\* a NonefinitySimpleClient that has no session
InitChats ==
    /\ ui = "none"
    /\ server = "raw"
    /\ impl = "simple"
    /\ InitStreamVars
    /\ rest = RestInit(JStr(<<"key">>), "absent")
    /\ \E browser \in BOOLEAN : simple = SimpleInit(browser, <<>>)

Init == InitComplete \/ InitSink \/ InitSession \/ InitChats \/ InitRequest \/ InitStream \/ InitFrames \/ InitChat \/ InitTurns \/ InitFlags \/ InitIds

\* what the onEvent callback of slot s reads and writes
Pack(s) ==
    [sink |-> call[s].sink, nev |-> call[s].nev,
     throwsOn |-> call[s].throwsOn, raised |-> <<>>,
     accumulatedContent |-> turn[s].accumulatedContent,
     accumulatedTools |-> turn[s].accumulatedTools,
     isStreaming |-> isStreaming, isThinking |-> isThinking,
     streamingState |-> streamingState, errorMessage |-> errorMessage,
     onErrorCalls |-> onErrorCalls]

\* the next state: W written back, c and tr the other fields of the slot
Commit(s, W, c, tr) ==
    /\ call' = [call EXCEPT ![s] = [c EXCEPT !.sink = W.sink, !.nev = W.nev]]
    /\ turn' = [turn EXCEPT ![s] = [tr EXCEPT
                    !.accumulatedContent = W.accumulatedContent,
                    !.accumulatedTools = W.accumulatedTools]]
    /\ isStreaming' = W.isStreaming
    /\ isThinking' = W.isThinking
    /\ streamingState' = W.streamingState
    /\ errorMessage' = W.errorMessage
    /\ onErrorCalls' = W.onErrorCalls

\* sendMessage / handleSend: the catch block
Catch(W, error) ==
    LET err == IF error.isError THEN error ELSE Err(<<"Failed to send message">>)
    IN  [W EXCEPT !.errorMessage = <<err.message>>,
                  !.onErrorCalls = Append(@, err)]

\* a finally block that leaves the thinking indicator alone
Finally_Thinking(W) ==
    [W EXCEPT !.isStreaming = FALSE, !.streamingState = EmptyStreamingState]

\* sendMessage / handleSend: the finally block
Finally(W) ==
    [W EXCEPT !.isStreaming = FALSE, !.isThinking = FALSE,
              !.streamingState = EmptyStreamingState]

\* accumulatedTools.map(t => ({name, arguments, result}))
ToolResults(acc) ==
    [i \in 1..Len(acc) |-> [name |-> acc[i].name, arguments |-> acc[i].arguments,
                            result |-> acc[i].result]]

UserMessage(text) == [role |-> "user", content |-> text, tools |-> <<>>]
AssistantMessage(content, acc) ==
    [role |-> "assistant", content |-> content, tools |-> ToolResults(acc)]

\* the request body of saveConversation
FinalizedTurn(userText, content, acc) ==
    <<UserMessage(userText), AssistantMessage(content, acc)>>

----------------------------------------------------------------------------
(* The environment: what the server and the network can do                  *)

\* the pieces a raw response body is made of, for the recording sink
StreamAlphabet == {NL, EV, DA, T_EMPTY}

\* the raw response bodies: every text of at most MaxBody pieces
Bodies == UNION {[1..n -> StreamAlphabet] : n \in 0..MaxBody}

\* the chunks a reader can hand over next when the text left is still to come
\* (an empty chunk: the decoder holds back an incomplete character)
Prefixes(left) == {SubSeq(left, 1, n) : n \in 0..Len(left)}

\* a well-formed frame
Frame(name, payload) == <<EV, name, NL, DA, payload, NL, NL>>

\* the frames a chat server sends to the hook and the widget, one per chunk:
\* a server that answers with text, one that calls tools, and one that is brief
TextChunks ==
    {Frame("start", T_START), Frame("ai_result", T_HI), Frame("ai_result", T_THERE),
     Frame("ai_result", T_NOCONTENT), Frame("error", T_ERR), Frame("ai_result", T_END)}

ToolChunks ==
    {Frame("start", T_START), Frame("ai_result", T_HI), Frame("tool_calls", T_CALL_ID),
     Frame("tool_calls", T_CALL), Frame("tool_result", T_RES_ID),
     Frame("tool_result", T_RES), Frame("tool_result", T_RES2)}

BriefChunks ==
    {Frame("ai_result", T_HI), Frame("error", T_ERR), Frame("ai_result", T_END)}

\* a server whose tool results carry ids of its own: "search-1"
IdChunks ==
    {Frame("ai_result", T_HI), Frame("tool_calls", T_CALL), Frame("tool_result", T_RES),
     Frame("tool_result", T_RES_SYN)}

\* a server that marks events of any kind as the last one, and sends events
\* of a kind the callbacks do not know
FlagChunks ==
    {Frame("start", T_START), Frame("start", T_DONE), Frame("error", T_DONE),
     Frame("tool_calls", T_DONE), Frame("ping", T_DONE), Frame("ping", T_HI),
     Frame("ai_result", T_HI)}

\* the frames a chat server sends to chatComplete, one per chunk: answers
\* whole, as a delta, nested in model.messages and encoded twice, a tool
\* call, the end mark, and payloads without content: an empty content, a
\* string and null
AnswerChunks ==
    {Frame("ai_result", T_HI), Frame("ai_result", T_THERE), Frame("ai_result", T_NESTED),
     Frame("ai_result", T_DOUBLE), Frame("tool_calls", T_CALL), Frame("ai_result", T_END),
     Frame("ai_result", T_NOCONTENT), Frame("ai_result", T_STRING), Frame("ai_result", T_NULL)}

\* the frames of a server that sends one frame per chunk to the recording
\* sink: an optional event line and a data line, in either order, the
\* payload with up to MaxPad spaces on either side
EventNames == {<<>>, <<"ai_result">>, <<"tool_calls">>}
Payloads == {T_START, T_END, T_STRING, T_DOUBLE, T_BAD}
Pad(n) == [i \in 1..n |-> SP]
DataLine(payload, before, after) == <<DA>> \o Pad(before) \o <<payload>> \o Pad(after)
EventLine(name) == <<EV>> \o name

FrameText(name, payload, before, after, dataFirst) ==
    IF name = <<>> THEN DataLine(payload, before, after)
    ELSE IF dataFirst THEN DataLine(payload, before, after) \o <<NL>> \o EventLine(name)
    ELSE EventLine(name) \o <<NL>> \o DataLine(payload, before, after)

\* the frames that declare this event name (<<>>: none) and carry this payload;
\* the payload is led by up to MaxPad blanks and trailed by none or by MaxPad
FramesOf(name, payload) ==
    {FrameText(name, payload, before, after, dataFirst) \o <<NL, NL>> :
        before \in 0..MaxPad, after \in {0, MaxPad}, dataFirst \in BOOLEAN}

FrameChunks == UNION {FramesOf(name, payload) : name \in EventNames, payload \in Payloads}

\* what reader.read() of slot s can resolve with
Chunks(s) ==
    CASE server = "raw" -> Prefixes(SubSeq(call[s].body, call[s].pos + 1, Len(call[s].body)))
      [] server = "text" -> TextChunks
      [] server = "tools" -> ToolChunks
      [] server = "brief" -> BriefChunks
      [] server = "flags" -> FlagChunks
      [] server = "ids" -> IdChunks
      [] server = "frames" -> FrameChunks
      [] server = "answers" -> AnswerChunks

\* the number of chunks a server sends at most
ReadsAllowed == IF server = "frames" THEN MaxFrames ELSE MaxReads

\* the number of messages the user sends at most
TurnsAllowed == IF server = "brief" THEN MaxTurns ELSE 1

\* what the user types
Inputs == {<<"Hello">>, <<SP>>}

\* a non-2xx response: its status, status text and body text (<<>>: text() rejects)
STATUS == <<"500">>
STATUS_TEXT == <<"Internal Server Error">>
BODY_TEXT == <<"{\"detail\":\"down\"}">>

\* the Error thrown for a non-2xx response whose text is errorText
StatusError(client, errorText) ==
    Err(<<IF client = "simple" THEN "Chat request failed: " ELSE "Stream failed: ">>
        \o STATUS \o <<" ">> \o STATUS_TEXT \o <<" - ">> \o errorText)

\* if (!response.ok): the error the block throws; text is <<body text>>, or
\* <<>> when response.text() rejects with textError
NotOkError(client, text, textError) ==
    IF text # <<>> THEN StatusError(client, text[1])
    ELSE IF client = "simple" THEN textError
    ELSE StatusError(client, STATUS_TEXT)

NoBodyError(client) ==
    Err(IF client = "simple" THEN <<"Response body is null">>
        ELSE <<"No reader available - response body is null">>)

----------------------------------------------------------------------------
(* Actions *)

\* what the rejection of the streaming call does to W: nothing more for a
\* direct caller; the catch and finally blocks of the turn otherwise
Rethrow(W1, error) == IF ui = "none" THEN W1 ELSE Finally(Catch(W1, error))

\* the catch block of the streaming call runs and the call rejects; for the
\* hook and the widget the rejection runs the catch and finally of the turn
\* W1 is W after the catch block called onEvent: when the callback threw
\* there, the call rejects with what it threw and throw error is not reached
Rejected(s, W1, c, error, cause, text) ==
    /\ Commit(s, Rethrow([W1 EXCEPT !.raised = <<>>],
                         IF W1.raised # <<>> THEN W1.raised[1] ELSE error),
              [c EXCEPT !.st = "rejected", !.cause = cause,
                        !.thrown = IF W1.raised # <<>> THEN W1.raised ELSE <<error>>,
                        !.errorText = text],
              [turn[s] EXCEPT !.pc = IF ui = "none" THEN @ ELSE "ended"])
    /\ UNCHANGED <<messages>>

\* a catch block that decodes what is left in the buffer after it has
\* reported the failure
RejectWith_Flush(s, W, c, error, cause, text) ==
    Rejected(s, OnEnd(OnCatch(W, error, now, ui, impl), c.buffer, now, ui, impl),
             c, error, cause, text)

\* the same, the call record being c
RejectWith(s, W, c, error, cause, text) ==
    Rejected(s, OnCatch(W, error, now, ui, impl), c, error, cause, text)

Reject(s, W, error, cause, text) == RejectWith(s, W, call[s], error, cause, text)

\* onEvent threw out of the read loop, which left W: the catch block runs
\* with what it threw
Thrown(s, W, c) ==
    RejectWith(s, [W EXCEPT !.raised = <<>>], c, W.raised[1], "sink", <<>>)

\* streamMessage / streamChat called directly: up to the await of fetch;
\* tk is what getToken gave
StreamWith(s, tk) ==
    IF impl = "full" /\ tk.threw # <<>>
    THEN /\ Reject(s, Pack(s), tk.threw[1], "token", <<>>)
         /\ rest' = [rest EXCEPT !.consulted = @ + tk.consulted]
    ELSE /\ call' = [call EXCEPT ![s].st = "fetch", ![s].posts = @ + 1]
         /\ rest' = Sent(rest, "stream", StreamBearer(impl, rest.apiKey, tk), tk)
         /\ UNCHANGED <<turn, messages, isStreaming, isThinking, streamingState,
                        errorMessage, onErrorCalls>>

StreamMessage(s) ==
    /\ ui = "none"
    /\ s = 1
    /\ call[s].st = "idle"
    /\ StreamWith(s, getToken(rest.apiKey, rest.provider))
    /\ UNCHANGED <<simple, impl, ui, server, now, nreads>>

\* sendMessage(text) / handleSend() with input text: up to the await of fetch
SendMessage(s, text) ==
    /\ ui # "none"
    /\ turn[s].pc = "idle"
    /\ s <= TurnsAllowed
    /\ \A r \in Slots : r < s => turn[r].pc # "idle"
    /\ ~(Trim(text) = <<>> \/ isStreaming)
    /\ messages' = Append(messages, UserMessage(text))
    /\ isStreaming' = TRUE
    /\ isThinking' = TRUE
    /\ streamingState' = EmptyStreamingState
    /\ errorMessage' = <<>>
    /\ turn' = [turn EXCEPT ![s] = [TurnInit EXCEPT !.pc = "streaming", !.userText = text]]
    /\ call' = [call EXCEPT ![s].st = "fetch", ![s].posts = @ + 1]
    /\ Truthy(rest.apiKey)
    /\ rest' = Sent(rest, "stream", Bearer(rest.apiKey), getToken(rest.apiKey, rest.provider))
    /\ UNCHANGED <<simple, impl, ui, server, now, onErrorCalls, nreads>>

\* fetch rejects
FetchFail(s) ==
    /\ call[s].st = "fetch"
    /\ \E error \in NetErrors : Reject(s, Pack(s), error, "fetch", <<>>)
    /\ UNCHANGED <<rest, simple, impl, ui, server, now, nreads>>

\* fetch resolves with a non-2xx response
FetchNotOk(s) ==
    /\ call[s].st = "fetch"
    /\ \E text \in {<<>>, <<BODY_TEXT>>} : \E textError \in NetErrors :
          Reject(s, Pack(s), NotOkError(impl, text, textError), "status", text)
    /\ UNCHANGED <<rest, simple, impl, ui, server, now, nreads>>

\* fetch resolves with a 2xx response that has no body
FetchNoBody(s) ==
    /\ call[s].st = "fetch"
    /\ Reject(s, Pack(s), NoBodyError(impl), "nobody", <<>>)
    /\ UNCHANGED <<rest, simple, impl, ui, server, now, nreads>>

\* fetch resolves with a 2xx response that has a body: the read loop starts
\* (the raw server has its whole body decided; the chat servers stream as they go)
FetchOk(s) ==
    /\ call[s].st = "fetch"
    /\ \E body \in IF server = "raw" THEN Bodies ELSE {<<>>} :
          call' = [call EXCEPT ![s].st = "reading", ![s].body = body]
    /\ UNCHANGED <<rest, simple, impl, ui, server, now, turn, messages, isStreaming, isThinking,
                   streamingState, errorMessage, onErrorCalls, nreads>>

\* the chunk ends inside a frame or inside a delimiter: text is held back in
\* the buffer while more of the body is still to come
EndsInsideFrame(s, chunk, buffer) ==
    server = "raw" /\ buffer # <<>> /\ call[s].pos + Len(chunk) < Len(call[s].body)

\* the call record after one turn of the read loop
ChunkRead(s, chunk, buffer) ==
    [call[s] EXCEPT !.buffer = buffer,
                    !.pos = IF server = "raw" THEN @ + Len(chunk) ELSE @,
                    !.split = @ \/ EndsInsideFrame(s, chunk, buffer),
                    !.recv = IF server \in {"frames", "answers"} THEN Append(@, chunk) ELSE @]

\* the state after one turn of the read loop gave r = [buffer, W]
ReadChunk(s, chunk, r) ==
    IF r.W.raised # <<>> THEN Thrown(s, r.W, ChunkRead(s, chunk, r.buffer))
    ELSE Commit(s, r.W, ChunkRead(s, chunk, r.buffer), turn[s])

\* reader.read() resolves with a chunk
Read(s) ==
    /\ call[s].st = "reading"
    /\ server # "raw" => nreads < ReadsAllowed
    /\ \E chunk \in Chunks(s) :
          ReadChunk(s, chunk, OnChunk(Pack(s), call[s].buffer, chunk, now, ui, impl))
    /\ nreads' = IF server = "raw" THEN nreads ELSE nreads + 1
    /\ UNCHANGED <<rest, simple, impl, ui, server, now, messages>>

\* if (accumulatedContent): the assistant message is appended and
\* saveConversation is called with the finalized turn
Finalize(s, W, c, final) ==
    /\ Commit(s, W, c, [turn[s] EXCEPT !.pc = "saving", !.saves = @ + 1,
                                       !.saved = <<final>>])
    /\ messages' = Append(messages, final[2])

\* the streaming call resolves with W, the call record being c
Resolve(s, W, c) ==
    IF W.raised # <<>> THEN Thrown(s, W, c)
    ELSE IF ui = "none"
    THEN Commit(s, W, c, turn[s]) /\ UNCHANGED messages
    ELSE IF W.accumulatedContent # <<>>
    THEN Finalize(s, W, c, FinalizedTurn(turn[s].userText, W.accumulatedContent,
                                         W.accumulatedTools))
    ELSE /\ Commit(s, Finally(W), c, [turn[s] EXCEPT !.pc = "ended"])
         /\ UNCHANGED messages

\* reader.read() resolves with done: the rest of the buffer is processed, the
\* call resolves, and the turn finalizes up to the await of saveConversation
ReadDone(s) ==
    /\ call[s].st = "reading"
    /\ server = "raw" => call[s].pos = Len(call[s].body)
    /\ Resolve(s, OnEnd(Pack(s), call[s].buffer, now, ui, impl),
               [call[s] EXCEPT !.st = "resolved"])
    /\ UNCHANGED <<rest, simple, impl, ui, server, now, nreads>>

\* reader.read() rejects
ReadFail(s) ==
    /\ call[s].st = "reading"
    /\ \E error \in NetErrors : Reject(s, Pack(s), error, "read", <<>>)
    /\ UNCHANGED <<rest, simple, impl, ui, server, now, nreads>>

\* saveConversation returns its envelope; the finally block runs
SaveReturn(s) ==
    /\ turn[s].pc = "saving"
    /\ \E reply \in SaveReplies :
          Commit(s, Finally(Pack(s)), call[s],
                 [turn[s] EXCEPT !.pc = "ended", !.saveResp = <<saveConversation(reply)>>])
    /\ UNCHANGED <<rest, simple, impl, ui, server, now, messages, nreads>>

\* the replies a REST endpoint can give to request
RequestReplies ==
    {Reply(<<>>, TRUE, <<Body(JBool(TRUE), JOpaque(<<"{\"id\":\"s1\"}">>), JStr(<<"ok">>), Undef)>>),
     Reply(<<>>, TRUE, <<Body(JBool(FALSE), Undef, JStr(<<"not yet">>), Undef)>>),
     Reply(<<>>, TRUE, <<Body(Undef, JOpaque(<<"[1,2]">>), JStr(<<"listed">>), Undef)>>),
     Reply(<<>>, TRUE, <<Body(Undef, Undef, JStr(<<"bare">>), JStr(<<"more">>))>>),
     Reply(<<>>, TRUE, <<JNull>>),
     Reply(<<>>, TRUE, <<>>),
     Reply(<<>>, FALSE, <<Body(Undef, Undef, JStr(<<"Forbidden">>), JStr(<<"no access">>))>>),
     Reply(<<>>, FALSE, <<Body(Undef, Undef, Undef, JStr(<<"Session not found">>))>>),
     Reply(<<>>, FALSE, <<Body(Undef, Undef, Undef, Undef)>>),
     Reply(<<>>, FALSE, <<>>),
     Reply(<<Err(<<"Failed to fetch">>)>>, FALSE, <<>>),
     Reply(<<NonError>>, FALSE, <<>>)}

\* request(endpoint, options), with tk what getToken gave: when getToken
\* throws nothing is fetched and the catch block makes the envelope
RequestWith(r, tk, reply) ==
    IF tk.threw # <<>>
    THEN [r EXCEPT !.consulted = @ + tk.consulted,
                   !.results = Append(@, [reply |-> <<>>, out |-> RequestCatch(tk.threw[1])])]
    ELSE [Sent(r, "request", Bearer(tk.token), tk) EXCEPT
              !.results = Append(@, [reply |-> <<reply>>, out |-> request(reply)])]

\* one call of request, answered by reply
Request(reply) ==
    /\ Len(rest.results) < MaxRequests
    /\ rest' = RequestWith(rest, getToken(rest.apiKey, rest.provider), reply)
    /\ UNCHANGED <<streamVars, simple>>

\* createSession() is called: up to the await of fetch
CreateSession(p) ==
    /\ simple.proc[p].pc = "idle"
    /\ simple' = [simple EXCEPT !.proc[p].pc = "creating", !.proc[p].kind = "create"]
    /\ UNCHANGED <<streamVars, rest>>

\* chat() is called: it creates a session when there is none, and streams
\* to this.sessionId otherwise; up to the await of the first fetch
Chat(p) ==
    /\ simple.proc[p].pc = "idle"
    /\ simple' = IF ~Truthy(simple.sessionId)
                 THEN [simple EXCEPT !.proc[p].pc = "creating", !.proc[p].kind = "chat"]
                 ELSE [simple EXCEPT !.proc[p].pc = "streaming", !.proc[p].kind = "chat",
                                     !.proc[p].had = TRUE,
                                     !.proc[p].target = simple.sessionId]
    /\ UNCHANGED <<streamVars, rest>>

\* the shapes of the answer to the POST of createSession: not 2xx, a body
\* without an id, a body with id, a body with data.id
CreateShapes == {"notok", "none", "id", "nested"}

\* createSession from the answer on, with id the id the server gave: the
\* session is set and saved; chat() goes on to streamChat with it
Created(c, p, id) ==
    [c EXCEPT !.sessionId = id,
              !.storage = Saved(c.browser, @, id),
              !.created = @ + 1,
              !.proc[p].pc = IF c.proc[p].kind = "chat" THEN "streaming" ELSE "resolved",
              !.proc[p].target = IF c.proc[p].kind = "chat" THEN id ELSE @,
              !.proc[p].result = IF c.proc[p].kind = "chat" THEN @ ELSE id]

\* the fetch of createSession is answered
CreateReturn(p, shape) ==
    /\ simple.proc[p].pc = "creating"
    /\ simple.created < MaxCalls
    /\ simple' =
           IF shape = "notok"
           THEN [simple EXCEPT !.failed = TRUE, !.proc[p].pc = "rejected"]
           ELSE IF shape = "none"
           THEN [simple EXCEPT !.failed = TRUE, !.proc[p].pc = "rejected",
                               !.sessionId = Undef]
           ELSE Created(simple, p, SessionIdOf(simple.created + 1))
    /\ UNCHANGED <<streamVars, rest>>

\* the stream of a chat() call ends: the call resolves with this.sessionId
\* as it is then, or rejects
StreamEnds(p, ok) ==
    /\ simple.proc[p].pc = "streaming"
    /\ simple' = IF ok
                 THEN [simple EXCEPT !.proc[p].pc = "resolved",
                                     !.proc[p].result = simple.sessionId]
                 ELSE [simple EXCEPT !.proc[p].pc = "rejected"]
    /\ UNCHANGED <<streamVars, rest>>

\* setSessionId(KEPT_ID)
SetSessionId ==
    /\ simple' = [simple EXCEPT !.sessionId = KEPT_ID,
                                !.storage = Saved(simple.browser, @, KEPT_ID)]
    /\ UNCHANGED <<streamVars, rest>>

\* clearSession()
ClearSession ==
    /\ simple' = [simple EXCEPT !.sessionId = JNull,
                                !.storage = IF simple.browser THEN <<>> ELSE @]
    /\ UNCHANGED <<streamVars, rest>>

\* the page is loaded again: a new client is constructed in place of the old one
Construct ==
    /\ \A p \in Procs : simple.proc[p].pc \notin {"creating", "streaming"}
    /\ simple' = [simple EXCEPT !.sessionId = Constructed(simple.browser, simple.storage)]
    /\ UNCHANGED <<streamVars, rest>>

\* time passes
Tick ==
    /\ ui # "none"
    /\ now < MaxNow
    /\ now' = now + 1
    /\ UNCHANGED <<rest, simple, impl, ui, server, call, turn, messages, isStreaming, isThinking,
                   streamingState, errorMessage, onErrorCalls, nreads>>

NextStream ==
    \E s \in Slots :
        \/ StreamMessage(s)
        \/ FetchFail(s)
        \/ FetchNotOk(s)
        \/ FetchNoBody(s)
        \/ FetchOk(s)
        \/ Read(s)
        \/ ReadDone(s)
        \/ ReadFail(s)

NextChat ==
    \/ \E s \in Slots :
        \/ \E text \in Inputs : SendMessage(s, text)
        \/ FetchFail(s)
        \/ FetchNotOk(s)
        \/ FetchNoBody(s)
        \/ FetchOk(s)
        \/ Read(s)
        \/ ReadDone(s)
        \/ ReadFail(s)
        \/ SaveReturn(s)
    \/ Tick

NextRequest ==
    \/ \E reply \in RequestReplies : Request(reply)
    \/ \E s \in Slots : StreamMessage(s)

\* chat() calls on one NonefinitySimpleClient
NextChats ==
    \E p \in Procs :
        \/ Chat(p)
        \/ \E shape \in CreateShapes : CreateReturn(p, shape)
        \/ \E ok \in BOOLEAN : StreamEnds(p, ok)

\* the session methods of one NonefinitySimpleClient
NextSession ==
    \/ \E p \in Procs :
        \/ CreateSession(p)
        \/ Chat(p)
        \/ \E shape \in CreateShapes : CreateReturn(p, shape)
        \/ \E ok \in BOOLEAN : StreamEnds(p, ok)
    \/ SetSessionId
    \/ ClearSession
    \/ Construct

Next == NextStream \/ NextChat \/ NextRequest \/ NextSession

Spec == Init /\ [][Next]_vars
SpecStream == InitStream /\ [][NextStream]_vars
SpecChat == InitChat /\ [][NextChat]_vars
SpecTurns == InitTurns /\ [][NextChat]_vars
SpecText == InitText /\ [][NextChat]_vars
SpecFrames == InitFrames /\ [][NextStream]_vars
SpecSink == InitSink /\ [][NextStream]_vars
SpecComplete == InitComplete /\ [][NextStream]_vars
SpecFlags == InitFlags /\ [][NextChat]_vars
SpecIds == InitIds /\ [][NextChat]_vars
SpecRequest == InitRequest /\ [][NextRequest]_vars
SpecSession == InitSession /\ [][NextSession]_vars
SpecChats == InitChats /\ [][NextChats]_vars

TypeOK ==
    /\ impl \in {"full", "simple"}
    /\ ui \in {"none", "hook", "widget"}
    /\ server \in {"raw", "frames", "text", "tools", "brief", "flags", "ids", "answers"}
    /\ now \in 0..MaxNow
    /\ \A s \in Slots : call[s].st \in {"idle", "fetch", "reading", "resolved", "rejected"}
    /\ \A s \in Slots : turn[s].pc \in {"idle", "streaming", "saving", "ended"}

----------------------------------------------------------------------------
(* Properties of the streaming call (SpecStream)                            *)

\* the callback state before any event
EmptyW ==
    [sink |-> <<>>, nev |-> 0, throwsOn |-> {}, raised |-> <<>>,
     accumulatedContent |-> <<>>, accumulatedTools |-> <<>>,
     isStreaming |-> FALSE, isThinking |-> FALSE, streamingState |-> EmptyStreamingState,
     errorMessage |-> <<>>, onErrorCalls |-> <<>>]

\* the events a client delivers when the whole body arrives as one chunk
OneChunkEvents(body, client) ==
    LET r == OnChunk(EmptyW, <<>>, body, 0, "none", client)
    IN  OnEnd(r.W, r.buffer, 0, "none", client).sink

\* C1: chunking-invariance.  Whatever way the response body was split into
\* chunks, a call that has read the body to its end has delivered to the
\* sink exactly the events that the same body delivers as a single chunk
\* (same names, same data, same order) - hence any two splits agree.
C1_ChunkingInvariance ==
    \A s \in Slots :
        server = "raw" /\ call[s].st = "resolved" =>
            call[s].sink = OneChunkEvents(call[s].body, impl)

\* a body of two event frames was read to its end in chunks that cut a frame
C1_Witness ==
    \E s \in Slots :
        /\ server = "raw" /\ call[s].st = "resolved"
        /\ call[s].split
        /\ Len(call[s].sink) = 2

\* the frames of a body, by one scan from left to right: a frame ends where
\* two newlines follow each other, the next frame starts behind them
RECURSIVE ScanFrames(_, _, _)
ScanFrames(body, i, start) ==
    IF i >= Len(body) THEN <<SubSeq(body, start, Len(body))>>
    ELSE IF body[i] = NL /\ body[i + 1] = NL
         THEN <<SubSeq(body, start, i - 1)>> \o ScanFrames(body, i + 2, i + 2)
         ELSE ScanFrames(body, i + 1, start)

\* the frame has a line "event: ..." or "data: ..." with something behind the prefix
CarriesLine(frame) ==
    \E i \in 1..(Len(frame) - 1) :
        /\ frame[i] \in {EV, DA}
        /\ frame[i + 1] # NL
        /\ i = 1 \/ frame[i - 1] = NL

\* C2: no complete frame is dropped or reordered.  When the body has been
\* read to its end, the sink holds one event per frame of the body that
\* carries an event: or data: line, in the order of the frames, and the k-th
\* event is the one decoded from the k-th such frame - also when the text of
\* a frame was split across chunks.
C2_NoFrameLost ==
    \A s \in Slots :
        server = "raw" /\ call[s].st = "resolved" =>
            LET frames == SelectSeq(ScanFrames(call[s].body, 1, 1), CarriesLine)
            IN  /\ Len(call[s].sink) = Len(frames)
                /\ \A k \in 1..Len(frames) :
                       <<call[s].sink[k]>> = ParseFrame(frames[k], impl)

\* a frame with an event line and a data line, longer than any single piece,
\* was cut by a chunk boundary and still delivered, followed by a second frame
C2_Witness ==
    \E s \in Slots :
        /\ server = "raw" /\ call[s].st = "resolved"
        /\ call[s].split
        /\ call[s].body = <<EV, T_EMPTY, NL, DA, T_EMPTY>>
        /\ call[s].sink = <<Event(<<T_EMPTY>>, Obj0)>>

\* C9: when fetch or a read of the response stream fails, the sink receives
\* exactly one synthetic error event, after the events decoded so far; it
\* carries the message of the failure (a fixed text when the failure is not
\* an Error); the call rejects with the failure itself; one POST was issued.
C9_FailureForwardedOnce ==
    \A s \in Slots :
        call[s].st = "rejected" /\ call[s].cause \in {"fetch", "read"} =>
            /\ Len(call[s].sink) = call[s].nev + 1
            /\ Len(call[s].thrown) = 1
            /\ call[s].thrown[1] \in NetErrors
            /\ Last(call[s].sink).event = <<"error">>
            /\ Get(Last(call[s].sink).data, "message") =
                   JStr(IF call[s].thrown[1].isError THEN call[s].thrown[1].message
                        ELSE IF impl = "simple" THEN <<"Unknown error">>
                        ELSE <<"Unknown stream error">>)
            /\ call[s].posts = 1

\* a read failed after an event had been decoded and delivered
C9_Witness ==
    \E s \in Slots :
        /\ server = "raw"
        /\ call[s].st = "rejected" /\ call[s].cause = "read"
        /\ call[s].nev >= 1
        /\ Len(call[s].sink) = call[s].nev + 1

\* the text m occurs in the text s
Contains(s, m) == \E i \in 0..(Len(s) - Len(m)) : SubSeq(s, i + 1, i + Len(m)) = m

\* C10: on a non-2xx response, or a response without a readable body, the
\* call throws before any SSE parsing: no event decoded from the body reaches
\* the sink; for a non-2xx response the error thrown carries the status code
\* and, when the body text could be read, the body text.
C10_ThrowsBeforeParsing ==
    \A s \in Slots :
        call[s].st = "rejected" /\ call[s].cause \in {"status", "nobody"} =>
            /\ call[s].nev = 0
            /\ call[s].cause = "status" =>
                   /\ call[s].thrown[1].isError
                   /\ Contains(call[s].thrown[1].message, STATUS)
                   /\ call[s].errorText # <<>> =>
                          Contains(call[s].thrown[1].message, call[s].errorText[1])

\* the part of C10 that holds for both clients: nothing is decoded from the
\* body of a response that is not 2xx or has no readable body
NoParsingAfterBadResponse ==
    \A s \in Slots :
        call[s].st = "rejected" /\ call[s].cause \in {"status", "nobody"} =>
            call[s].nev = 0 /\ Len(call[s].sink) = 1

----------------------------------------------------------------------------
(* Properties of the accumulator (SpecChat, SpecTurns)                      *)

\* the events the frames of the chat servers decode to
E_HI == Event(<<"ai_result">>, JSONValue(T_HI))
E_THERE == Event(<<"ai_result">>, JSONValue(T_THERE))
E_CALL_ID == Event(<<"tool_calls">>, JSONValue(T_CALL_ID))
E_CALL == Event(<<"tool_calls">>, JSONValue(T_CALL))
E_RES_ID == Event(<<"tool_result">>, JSONValue(T_RES_ID))
E_RES == Event(<<"tool_result">>, JSONValue(T_RES))
E_RES2 == Event(<<"tool_result">>, JSONValue(T_RES2))

\* the stream of slot s is being read
Reading(s) == call[s].st = "reading"

\* this step delivers one more event to the callback of slot s
Delivers(s) == Len(call'[s].sink) = Len(call[s].sink) + 1 /\ call'[s].st = "reading"

\* the content and the delta mark an ai_result payload declares
DeclaredContent(e) ==
    IF Get(e.data, "content").t = "str" THEN Get(e.data, "content").v ELSE <<>>
DeclaredDelta(e) == Get(e.data, "is_delta") = JBool(TRUE)

ResolvedAs(entry, name, args, result) ==
    /\ entry.name = JStr(name)
    /\ entry.args = args
    /\ entry.content = JStr(result)
    /\ entry.state = "output-available"

\* the entry of the finalized turn with this name, arguments and result
SavedAs(entry, name, args, result) ==
    /\ entry.name = JStr(name)
    /\ entry.arguments = args
    /\ entry.result = JStr(result)

\* C4: a tool_calls event {name:"search", arguments:{q:"x"}, id:"t1"}
\* followed by a tool_result event {id:"t1", result:"42"} yields exactly one
\* tool invocation, resolved with name "search", arguments {q:"x"} and
\* result "42" - in the tool collection of the streaming state and in the
\* tools accumulated for the finalized turn.
C4_CallThenResult ==
    \A s \in Slots :
        Reading(s) /\ call[s].sink = <<E_CALL_ID, E_RES_ID>> =>
            /\ Len(streamingState.tools) = 1
            /\ ResolvedAs(streamingState.tools[1], <<"search">>, ARGS_X, <<"42">>)
            /\ Len(turn[s].accumulatedTools) = 1
            /\ SavedAs(turn[s].accumulatedTools[1], <<"search">>, ARGS_X, <<"42">>)

\* the part of C4 that holds: the tools accumulated for the finalized turn
C4_FinalizedPart ==
    \A s \in Slots :
        Reading(s) /\ call[s].sink = <<E_CALL_ID, E_RES_ID>> =>
            /\ Len(turn[s].accumulatedTools) = 1
            /\ SavedAs(turn[s].accumulatedTools[1], <<"search">>, ARGS_X, <<"42">>)

\* C5: two tool_calls events for "search" without ids followed by two
\* tool_result events without ids are paired oldest-unresolved-first: both
\* invocations end resolved, the first with the first result and the second
\* with the second result.
C5_FifoPairing ==
    \A s \in Slots :
        Reading(s) /\ call[s].sink = <<E_CALL, E_CALL, E_RES, E_RES2>> =>
            /\ Len(streamingState.tools) = 2
            /\ ResolvedAs(streamingState.tools[1], <<"search">>, ARGS_X, <<"43">>)
            /\ ResolvedAs(streamingState.tools[2], <<"search">>, ARGS_X, <<"44">>)
            /\ Len(turn[s].accumulatedTools) = 2
            /\ SavedAs(turn[s].accumulatedTools[1], <<"search">>, ARGS_X, <<"43">>)
            /\ SavedAs(turn[s].accumulatedTools[2], <<"search">>, ARGS_X, <<"44">>)

\* the stream of the turn is still being read: the transport has neither
\* closed nor failed
StreamActive(s) == call[s].st \in {"fetch", "reading"}

\* C6: one turn streams at a time.  While the stream of an accepted
\* sendMessage is still being read, no further sendMessage is accepted and
\* no further request is issued.
C6_OneStreamAtATime ==
    \A s, r \in Slots : StreamActive(s) /\ StreamActive(r) => s = r

\* C7: when the stream of an accepted turn has ended - the reader completed
\* or the transport failed - and the turn is over: if the accumulated
\* content is not empty the FinalizedTurn was constructed and
\* saveConversation was called exactly once, otherwise it was not called.
C7_SaveOncePerTurn ==
    \A s \in Slots :
        turn[s].pc = "ended" =>
            IF turn[s].accumulatedContent # <<>>
            THEN /\ turn[s].saves = 1
                 /\ turn[s].saved = <<FinalizedTurn(turn[s].userText,
                                                    turn[s].accumulatedContent,
                                                    turn[s].accumulatedTools)>>
            ELSE turn[s].saves = 0

\* the part of C7 that holds: a turn whose stream the reader completed
C7_CompletedPart ==
    \A s \in Slots :
        turn[s].pc = "ended" /\ call[s].st = "resolved" =>
            IF turn[s].accumulatedContent # <<>>
            THEN /\ turn[s].saves = 1
                 /\ turn[s].saved = <<FinalizedTurn(turn[s].userText,
                                                    turn[s].accumulatedContent,
                                                    turn[s].accumulatedTools)>>
            ELSE turn[s].saves = 0

\* C8: when the save-conversation call of a turn has failed, the failure is
\* in errorMessage and was handed to onError, the save was made once, and
\* the assistant message of the turn is still in the messages list.
C8_SaveFailureSurfaced ==
    \A s \in Slots :
        /\ turn[s].pc = "ended"
        /\ turn[s].saveResp # <<>>
        /\ turn[s].saveResp[1].success # JBool(TRUE)
        => /\ errorMessage = <<TextOf(turn[s].saveResp[1].error)>>
           /\ \E i \in 1..Len(onErrorCalls) :
                  onErrorCalls[i].message = TextOf(turn[s].saveResp[1].error)
           /\ turn[s].saves = 1
           /\ \E i \in 1..Len(messages) : messages[i] = turn[s].saved[1][2]

\* the part of C8 that holds: no retry, no rollback
C8_NoRetryNoRollback ==
    \A s \in Slots :
        /\ turn[s].pc = "ended"
        /\ turn[s].saveResp # <<>>
        /\ turn[s].saveResp[1].success # JBool(TRUE)
        => /\ turn[s].saves = 1
           /\ \E i \in 1..Len(messages) : messages[i] = turn[s].saved[1][2]

----------------------------------------------------------------------------
(* What a turn leaves behind after an error                                 *)

\* an error happened during turn s: the error slot is set, or the save failed
Errored(s) ==
    \/ errorMessage # <<>>
    \/ turn[s].saveResp # <<>> /\ turn[s].saveResp[1].success = JBool(FALSE)

\* the state exposed shows this assistant text: in the streaming state or in
\* an assistant message of the list
ContentVisible(content) ==
    \/ streamingState.content = content
    \/ \E i \in 1..Len(messages) :
          messages[i].role = "assistant" /\ messages[i].content = content

\* the state exposed shows these tools: in the streaming state or in an
\* assistant message of the list
ToolsVisible(acc) ==
    \/ streamingState.tools # <<>>
    \/ \E i \in 1..Len(messages) :
          messages[i].role = "assistant" /\ messages[i].tools = ToolResults(acc)

\* C11: after an error during a turn (an error event, a transport failure or
\* a failed save), once the turn has ended the assistant text and the tools
\* accumulated before the error are still visible in the streaming state or
\* in the messages list.
C11_PartialContentKept ==
    \A s \in Slots :
        turn[s].pc = "ended" /\ Errored(s) =>
            /\ turn[s].accumulatedContent # <<>> =>
                   ContentVisible(turn[s].accumulatedContent)
            /\ turn[s].accumulatedTools # <<>> =>
                   ToolsVisible(turn[s].accumulatedTools)

\* the part that holds: a turn whose stream the reader completed keeps its
\* text in the messages list, whatever errors happened
C11_CompletedPart ==
    \A s \in Slots :
        turn[s].pc = "ended" /\ call[s].st = "resolved"
            /\ turn[s].accumulatedContent # <<>> =>
                ContentVisible(turn[s].accumulatedContent)

----------------------------------------------------------------------------
(* The start and the error events                                           *)

\* this step delivers an event of this name to the callback of slot s
DeliversEvent(s, name) == Delivers(s) /\ Last(call'[s].sink).event = name

\* C12: processing a start event resets the accumulator: the accumulated
\* content and the tools accumulated for the finalized turn become empty, the
\* streaming state becomes empty, and isThinking and isStreaming are true.
C12_StartResets ==
    [][\A s \in Slots :
          DeliversEvent(s, <<"start">>) =>
              /\ turn'[s].accumulatedContent = <<>>
              /\ turn'[s].accumulatedTools = <<>>
              /\ streamingState' = EmptyStreamingState
              /\ isThinking' /\ isStreaming']_vars

\* the part that holds: the streaming state is emptied and both flags are set
C12_DisplayedPart ==
    [][\A s \in Slots :
          DeliversEvent(s, <<"start">>) =>
              /\ streamingState' = EmptyStreamingState
              /\ isThinking' /\ isStreaming']_vars

\* content received before a start event is absent from the finalized turn
C12_FinalizedWithoutEarlier ==
    \A s \in Slots :
        turn[s].pc = "saving" /\ call[s].sink = <<E_HI, Event(<<"start">>, Obj0)>> =>
            turn[s].saved[1][2].content = <<>>

\* an error event was delivered to the callback of slot s
AfterError(s) == \E i \in 1..Len(call[s].sink) : call[s].sink[i].event = <<"error">>

\* C13: an error event sets isStreaming and isThinking to false and surfaces
\* its message through errorMessage and onError; the events that arrive
\* after it in the same stream change neither the accumulated content nor
\* the tool collection.
C13_ErrorTerminates ==
    /\ [][\A s \in Slots :
             DeliversEvent(s, <<"error">>) =>
                 /\ ~isStreaming' /\ ~isThinking'
                 /\ errorMessage' # <<>>
                 /\ Len(onErrorCalls') = Len(onErrorCalls) + 1
                 /\ Last(onErrorCalls').message = errorMessage'[1]]_vars
    /\ [][\A s \in Slots :
             (Delivers(s) /\ AfterError(s)) =>
                 /\ turn'[s].accumulatedContent = turn[s].accumulatedContent
                 /\ turn'[s].accumulatedTools = turn[s].accumulatedTools
                 /\ streamingState' = streamingState]_vars

\* the part that holds: the flags and the error channel
C13_SurfacedPart ==
    [][\A s \in Slots :
          DeliversEvent(s, <<"error">>) =>
              /\ ~isStreaming' /\ ~isThinking'
              /\ errorMessage' # <<>>
              /\ Len(onErrorCalls') = Len(onErrorCalls) + 1
              /\ Last(onErrorCalls').message = errorMessage'[1]]_vars

----------------------------------------------------------------------------
(* The tool collection                                                      *)

\* the ids of the entries of a collection are pairwise distinct
UniqueIds(tools) ==
    \A i, j \in 1..Len(tools) : tools[i].id = tools[j].id => i = j

\* C14: the tool collection never holds two entries for the same id, and
\* the toolResults of the finalized turn list one entry per id, in the order
\* the ids first appeared.
C14_OneEntryPerId ==
    \A s \in Slots :
        /\ UniqueIds(streamingState.tools)
        /\ turn[s].pc = "saving" =>
               /\ UniqueIds(turn[s].accumulatedTools)
               /\ turn[s].saved[1][2].tools = ToolResults(turn[s].accumulatedTools)

\* the part that holds: the collection of the streaming state has one entry
\* per id, and a tool_calls event whose id it already has inserts nothing
C14_MapPart ==
    /\ [](UniqueIds(streamingState.tools))
    /\ [][\A s \in Slots :
             (DeliversEvent(s, <<"tool_calls">>)
                 /\ \E i \in 1..Len(streamingState.tools) :
                        streamingState.tools[i].id = Get(Last(call'[s].sink).data, "id"))
             => streamingState'.tools = streamingState.tools]_vars

\* the name a tool_result payload goes by
ResultName(p) == IF Truthy(Get(p, "name")) THEN Get(p, "name") ELSE JStr(UNKNOWN)

\* the entry a tool_result payload is for: the awaiting entry with its
\* explicit id, else the oldest awaiting entry of its name, else none (0)
Awaited(tools, p) ==
    LET byId == {i \in 1..Len(tools) :
                    /\ Truthy(Get(p, "id"))
                    /\ tools[i].id = Get(p, "id")
                    /\ tools[i].state = "input-available"}
        byName == {i \in 1..Len(tools) :
                      tools[i].name = ResultName(p) /\ tools[i].state = "input-available"}
    IN  IF byId # {} THEN SetMin(byId)
        ELSE IF byName # {} THEN SetMin(byName)
        ELSE 0

\* the entry is resolved with the result of the payload, as a string
ResolvedWith(entry, p) ==
    /\ entry.state = "output-available"
    /\ entry.content = IF Get(p, "result").t = "str" THEN Get(p, "result")
                       ELSE JStr(Stringify(Get(p, "result")))

\* new is old with the entry at k resolved with the payload (k = 0: with one
\* resolved entry added) and nothing else changed
ResolvesOnly(old, new, k, p) ==
    IF k # 0
    THEN /\ Len(new) = Len(old)
         /\ ResolvedWith(new[k], p)
         /\ \A j \in 1..Len(old) : j # k => new[j] = old[j]
    ELSE /\ Len(new) = Len(old) + 1
         /\ ResolvedWith(new[Len(new)], p)
         /\ \A j \in 1..Len(old) : new[j] = old[j]

\* C15: a tool_result event resolves the awaiting entry with its explicit
\* id, else the oldest awaiting entry of its name, else adds one resolved
\* entry; the entry gets the result and no other entry changes.
C15_ResolvesAwaited ==
    [][\A s \in Slots :
          DeliversEvent(s, <<"tool_result">>) =>
              ResolvesOnly(streamingState.tools, streamingState'.tools,
                           Awaited(streamingState.tools, Last(call'[s].sink).data),
                           Last(call'[s].sink).data)]_vars

\* the part that holds: when an entry is awaiting this result and no
\* resolved entry has the explicit id, that entry is resolved and no other
\* entry changes
C15_AwaitingPart ==
    [][\A s \in Slots :
          (/\ DeliversEvent(s, <<"tool_result">>)
           /\ Awaited(streamingState.tools, Last(call'[s].sink).data) # 0
           /\ \A i \in 1..Len(streamingState.tools) :
                  streamingState.tools[i].id = Get(Last(call'[s].sink).data, "id")
                      => streamingState.tools[i].state = "input-available")
          => ResolvesOnly(streamingState.tools, streamingState'.tools,
                          Awaited(streamingState.tools, Last(call'[s].sink).data),
                          Last(call'[s].sink).data)]_vars

----------------------------------------------------------------------------
(* Properties of the event-line parser (SpecFrames): the k-th frame         *)
(* received gives the k-th event of the sink                                *)

\* the event name a frame goes by: its own, "message" when it declares none
DeclaredName(name) == IF name = <<>> THEN <<"message">> ELSE name

\* every frame received has given one event, the k-th frame the k-th event
OnePerFrame(s) == call[s].nev = Len(call[s].recv) /\ Len(call[s].sink) >= call[s].nev

\* C16: a frame whose trimmed data payload is "[START]" yields the single
\* event {event: "start", data: {}}, whatever event name the frame declares.
C16_StartSentinel ==
    \A s \in Slots :
        /\ OnePerFrame(s)
        /\ \A k \in 1..Len(call[s].recv) : \A name \in EventNames :
               call[s].recv[k] \in FramesOf(name, T_START) =>
                   call[s].sink[k] = Event(<<"start">>, Obj0)

\* a frame that declares ai_result and carries " "[START]" " was delivered as start
C16_Witness ==
    \E s \in Slots :
        /\ call[s].st = "resolved"
        /\ call[s].recv = <<<<EV, "ai_result", NL, DA, SP, T_START, SP, NL, NL>>>>
        /\ call[s].sink = <<Event(<<"start">>, Obj0)>>

\* C17 as stated: a frame whose trimmed data payload is "[END]" yields the
\* single event that has the frame's own event name ("message" when it
\* declares none) and the data {done: true}.
C17_Original ==
    \A s \in Slots :
        /\ OnePerFrame(s)
        /\ \A k \in 1..Len(call[s].recv) : \A name \in EventNames :
               call[s].recv[k] \in FramesOf(name, T_END) =>
                   call[s].sink[k] = Event(DeclaredName(name), Obj([done |-> JBool(TRUE)]))

\* C17: a frame whose trimmed data payload is "[END]" yields the single
\* event with the data {done: true} and the frame's own event name
\* ("message" when it declares none) - except that NonefinitySimpleClient
\* names the event "message" when the frame declares ai_result.
C17_EndSentinel ==
    \A s \in Slots :
        /\ OnePerFrame(s)
        /\ \A k \in 1..Len(call[s].recv) : \A name \in EventNames :
               call[s].recv[k] \in FramesOf(name, T_END) =>
                   call[s].sink[k] =
                       Event(IF impl = "simple" /\ name = <<"ai_result">>
                             THEN <<"message">> ELSE DeclaredName(name),
                             Obj([done |-> JBool(TRUE)]))

\* NonefinityClient delivered the "[END]" of a tool_calls frame as tool_calls
C17_Witness ==
    \E s \in Slots :
        /\ impl = "full" /\ call[s].st = "resolved"
        /\ call[s].recv = <<<<DA, T_END, SP, NL, EV, "tool_calls", NL, NL>>>>
        /\ call[s].sink = <<Event(<<"tool_calls">>, Obj([done |-> JBool(TRUE)]))>>

\* the data of the event holds the raw text of a data line that carries
\* this payload, and a description of the failure
HoldsRaw(e, payload) ==
    /\ Get(e.data, "raw").t = "str"
    /\ \E i \in 1..Len(Get(e.data, "raw").v) : Get(e.data, "raw").v[i] = payload
    /\ Get(e.data, "parseError").t = "str"

\* C18: a frame whose data line is not valid JSON yields exactly one event
\* of kind error that holds the raw unparsed text and a description of the
\* failure, and the parser does not throw: the call does not reject for it.
C18_ParseErrorEvent ==
    \A s \in Slots :
        /\ OnePerFrame(s)
        /\ call[s].st = "rejected" => call[s].cause \in {"fetch", "status", "nobody", "read"}
        /\ \A k \in 1..Len(call[s].recv) : \A name \in EventNames :
               call[s].recv[k] \in FramesOf(name, T_BAD) =>
                   /\ call[s].sink[k].event = <<"error">>
                   /\ HoldsRaw(call[s].sink[k], T_BAD)

\* the part that holds: one event, of the kind the parser gives the frame,
\* that holds the raw text and a description, and no rejection
C18_ErrorShaped ==
    \A s \in Slots :
        /\ OnePerFrame(s)
        /\ call[s].st = "rejected" => call[s].cause \in {"fetch", "status", "nobody", "read"}
        /\ \A k \in 1..Len(call[s].recv) : \A name \in EventNames :
               call[s].recv[k] \in FramesOf(name, T_BAD) =>
                   /\ call[s].sink[k].event =
                          IF impl = "simple" /\ name = <<"ai_result">>
                          THEN <<"message">> ELSE DeclaredName(name)
                   /\ HoldsRaw(call[s].sink[k], T_BAD)

\* the event carries this value: as its data, or next to the content
\* NonefinitySimpleClient extracted from it
Carries(e, value) == e.data = value \/ Get(e.data, "raw") = value

\* C20: when the data payload of a frame parses to a JSON string, the event
\* delivered carries what a second JSON parse makes of that string; when the
\* second parse fails it carries the string, and no error is reported.
C20_SecondParse ==
    \A s \in Slots :
        /\ OnePerFrame(s)
        /\ \A k \in 1..Len(call[s].recv) : \A name \in EventNames :
               /\ call[s].recv[k] \in FramesOf(name, T_DOUBLE) =>
                      /\ Carries(call[s].sink[k], JSONValue(T_HI))
                      /\ Get(call[s].sink[k].data, "parseError") = Undef
               /\ call[s].recv[k] \in FramesOf(name, T_STRING) =>
                      /\ call[s].sink[k].data = JStr(<<"hello">>)
                      /\ call[s].sink[k].event # <<"error">>

\* the part that holds: NonefinitySimpleClient parses twice; NonefinityClient
\* parses once and delivers the string
C20_PerClient ==
    \A s \in Slots :
        /\ OnePerFrame(s)
        /\ \A k \in 1..Len(call[s].recv) : \A name \in EventNames :
               /\ call[s].recv[k] \in FramesOf(name, T_DOUBLE) =>
                      IF impl = "simple"
                      THEN call[s].sink[k].data =
                               Obj([content |-> JStr(<<"hi">>), raw |-> JSONValue(T_HI)])
                      ELSE call[s].sink[k].data = JStr(<<T_HI>>)
               /\ call[s].recv[k] \in FramesOf(name, T_STRING) =>
                      /\ call[s].sink[k].data = JStr(<<"hello">>)
                      /\ call[s].sink[k].event # <<"error">>

\* what the callbacks make of the string NonefinityClient delivers: the hook
\* decodes it once more, the widget reads no content from it
C20_Callbacks ==
    /\ decodeEventPayload(JStr(<<T_HI>>)) = JSONValue(T_HI)
    /\ Accumulate(EmptyW, Event(<<"ai_result">>, JStr(<<T_HI>>)), 0, "hook").accumulatedContent
           = <<"hi">>
    /\ Accumulate(EmptyW, Event(<<"ai_result">>, JStr(<<T_HI>>)), 0, "widget").accumulatedContent
           = <<>>

----------------------------------------------------------------------------
(* A frame that cannot be parsed, followed by other frames (SpecStream)     *)

\* where the frame's first line "<prefix>..." with something behind the prefix begins
LineStarts(frame, prefix) ==
    {i \in 1..(Len(frame) - 1) :
        /\ frame[i] = prefix
        /\ frame[i + 1] # NL
        /\ i = 1 \/ frame[i - 1] = NL}

\* the text behind the prefix on that line, up to the end of the line
LineText(frame, prefix) ==
    LET i == CHOOSE a \in LineStarts(frame, prefix) :
                 \A b \in LineStarts(frame, prefix) : a <= b
        j == CHOOSE a \in (i + 1)..Len(frame) :
                 /\ \A k \in (i + 1)..a : frame[k] # NL
                 /\ a = Len(frame) \/ frame[a + 1] = NL
    IN  SubSeq(frame, i + 1, j)

\* the frame has a data line and what it carries is not a JSON text
Malformed(frame) ==
    /\ LineStarts(frame, DA) # {}
    /\ LineText(frame, DA) # <<T_EMPTY>>

\* the event of a frame whose data line, if it has one, carries "{}"
PlainEvent(frame) ==
    Event(IF LineStarts(frame, EV) = {} THEN <<"message">> ELSE LineText(frame, EV), Obj0)

\* C19: a frame of malformed JSON does not abort the rest of the stream.
\* When the body has been read to its end, every frame behind a malformed
\* frame has given its event, in the order of the frames; and no call is
\* rejected for a frame: only for a failure of the request or of a read.
C19_StreamGoesOn ==
    \A s \in Slots :
        /\ call[s].st = "rejected" => call[s].cause \in {"fetch", "status", "nobody", "read"}
        /\ server = "raw" /\ call[s].st = "resolved" =>
               LET frames == SelectSeq(ScanFrames(call[s].body, 1, 1), CarriesLine)
               IN  \A k \in 1..Len(frames) :
                       Malformed(frames[k]) =>
                           /\ Len(call[s].sink) = Len(frames)
                           /\ Get(call[s].sink[k].data, "parseError") # Undef
                           /\ \A j \in (k + 1)..Len(frames) :
                                  IF Malformed(frames[j])
                                  THEN Get(call[s].sink[j].data, "parseError") # Undef
                                  ELSE call[s].sink[j] = PlainEvent(frames[j])

\* the body "data: data: \n\ndata: {}" was read to its end: the first frame
\* gave a parse failure, the second its event, and the call resolved
C19_Witness ==
    \E s \in Slots :
        /\ server = "raw" /\ call[s].st = "resolved"
        /\ call[s].body = <<DA, DA, NL, NL, DA, T_EMPTY>>
        /\ Len(call[s].sink) = 2
        /\ Get(call[s].sink[1].data, "parseError") # Undef
        /\ call[s].sink[2] = Event(<<"message">>, Obj0)

----------------------------------------------------------------------------
(* The completion flag and events of unknown kinds (SpecFlags)              *)

\* this step delivers an event whose payload carries done === true
DeliversDone(s) ==
    /\ Delivers(s)
    /\ Get(PayloadOf(ui, Last(call'[s].sink)), "done") = JBool(TRUE)

\* C21: any event whose payload carries done === true sets isStreaming to
\* false, whatever its kind: start, error, tool and unknown kinds included.
C21_DoneEndsStreaming ==
    [][\A s \in Slots : DeliversDone(s) => isStreaming' = FALSE]_vars

\* the part that holds: an event of any kind but start that carries
\* done === true sets isStreaming to false; a start event sets it to true
C21_AllButStart ==
    [][\A s \in Slots :
          DeliversDone(s) =>
              isStreaming' = (Last(call'[s].sink).event = <<"start">>)]_vars

\* the kinds of event the callbacks have a branch for
KnownKinds ==
    {<<"start">>, <<"tool_calls">>, <<"tool_result">>, <<"tool_results">>,
     <<"ai_result">>, <<"error">>}

\* this step delivers an event of another kind, without a completion flag
DeliversUnknown(s) ==
    /\ Delivers(s)
    /\ Last(call'[s].sink).event \notin KnownKinds
    /\ Get(PayloadOf(ui, Last(call'[s].sink)), "done") # JBool(TRUE)

\* C22: an event of a kind that is none of start, tool_calls, tool_result,
\* tool_results, ai_result, error, and that carries no completion flag,
\* reaches the callback and changes nothing there: the content, the tool
\* collection, isThinking, isStreaming and errorMessage stay as they were.
C22_UnknownKindIgnored ==
    [][\A s \in Slots :
          DeliversUnknown(s) =>
              /\ streamingState' = streamingState
              /\ turn'[s].accumulatedContent = turn[s].accumulatedContent
              /\ turn'[s].accumulatedTools = turn[s].accumulatedTools
              /\ isThinking' = isThinking
              /\ isStreaming' = isStreaming
              /\ errorMessage' = errorMessage
              /\ onErrorCalls' = onErrorCalls]_vars

\* after "hi" and a tool call, a ping event that carries a content was
\* delivered: the content shown is still "hi" and the tool is still there
C22_Witness ==
    \E s \in Slots :
        /\ call[s].st = "reading"
        /\ Len(call[s].sink) = 3
        /\ call[s].sink[1] = Event(<<"ai_result">>, JSONValue(T_HI))
        /\ call[s].sink[2].event = <<"tool_calls">>
        /\ call[s].sink[3] = Event(<<"ping">>, JSONValue(T_HI))
        /\ streamingState.content = <<"hi">>
        /\ Len(streamingState.tools) = 1
        /\ isStreaming = FALSE

----------------------------------------------------------------------------
(* The end of a turn (SpecChat)                                            *)

\* this step ends the turn of slot s: its finally block has run
EndsTurn(s) == turn[s].pc # "ended" /\ turn'[s].pc = "ended"

\* the stream of slot s was start, "hi", " there" and closed without a done marker
HiThere(s) ==
    /\ call'[s].st = "resolved"
    /\ call'[s].sink = <<Event(<<"start">>, Obj0), E_HI, E_THERE>>

\* C23: every accepted turn ends its indicators.  When the turn ends - the
\* stream has closed, with or without a done marker, or failed, and the save
\* call, if there was one, has returned - isStreaming and isThinking are
\* false; and after the stream start, {content:"hi",is_delta:false},
\* {content:" there",is_delta:true} without a done marker the final
\* assistant message is "hi there" with no tool invocations.
C23_TurnEndsIndicators ==
    [][\A s \in Slots :
          EndsTurn(s) =>
              /\ ~isStreaming' /\ ~isThinking'
              /\ HiThere(s) =>
                     /\ messages' = <<UserMessage(turn[s].userText),
                                      AssistantMessage(<<"hi", " there">>, <<>>)>>
                     /\ turn'[s].saved = <<FinalizedTurn(turn[s].userText,
                                                         <<"hi", " there">>, <<>>)>>]_vars

\* the turn of "Hello" has ended after start, "hi", " there" and a save
C23_Witness ==
    \E s \in Slots :
        /\ turn[s].pc = "ended"
        /\ call[s].st = "resolved"
        /\ call[s].sink = <<Event(<<"start">>, Obj0), E_HI, E_THERE>>
        /\ turn[s].saveResp # <<>>
        /\ messages = <<UserMessage(<<"Hello">>), AssistantMessage(<<"hi", " there">>, <<>>)>>
        /\ ~isStreaming /\ ~isThinking

----------------------------------------------------------------------------
(* Two accumulators for one stream (SpecIds)                                *)

\* a second accumulator takes the events evs, the k-th at the time ts[k]
RECURSIVE Replay(_, _, _, _)
Replay(W, evs, ts, mode) ==
    IF evs = <<>> THEN W
    ELSE Replay(Accumulate(W, evs[1], ts[1], mode), Tail(evs), Tail(ts), mode)

\* the FinalizedTurn the second accumulator builds
Replayed(userText, evs, ts, mode) ==
    FinalizedTurn(userText, Replay(EmptyW, evs, ts, mode).accumulatedContent,
                  Replay(EmptyW, evs, ts, mode).accumulatedTools)

\* the times at which n events can arrive
Times(n) == [1..n -> 0..MaxNow]

\* C24: the accumulator is deterministic.  A second, independent accumulator
\* that takes the events of a completed stream builds the FinalizedTurn the
\* first one has built (the same user text, assistant text and list of tool
\* name / arguments / result), at whatever times its events arrive.
C24_Deterministic ==
    \A s \in Slots :
        call[s].st = "resolved" /\ turn[s].saved # <<>> =>
            \A ts \in Times(Len(call[s].sink)) :
                Replayed(turn[s].userText, call[s].sink, ts, ui) = turn[s].saved[1]

\* the part that holds: a stream in which no result carries an id of the
\* form the accumulator makes up itself
C24_OwnIdsPart ==
    \A s \in Slots :
        /\ call[s].st = "resolved" /\ turn[s].saved # <<>>
        /\ \A k \in 1..Len(call[s].sink) :
               call[s].sink[k] # Event(<<"tool_result">>, JSONValue(T_RES_SYN))
        => \A ts \in Times(Len(call[s].sink)) :
               Replayed(turn[s].userText, call[s].sink, ts, ui) = turn[s].saved[1]

----------------------------------------------------------------------------
(* The REST calls of NonefinityClient (SpecRequest)                         *)

\* the call was answered with a 2xx response whose body is a JSON object
Answered(r) ==
    /\ r.reply # <<>>
    /\ r.reply[1].rejects = <<>>
    /\ r.reply[1].json # <<>>
    /\ r.reply[1].json[1] # JNull

\* the envelope of a failure: no data, and a message
Failure(out) ==
    /\ out.success = JBool(FALSE)
    /\ out.data = Undef
    /\ out.error.t = "str" /\ out.error.v # <<>>

\* the envelope request must make of the body of a 2xx response
Normalized(body) ==
    IF body.success # Undef THEN Envelope(body.success, body.data, body.message, Undef)
    ELSE IF body.data # Undef THEN Envelope(JBool(TRUE), body.data, body.message, Undef)
    ELSE Envelope(JBool(TRUE), body, Undef, Undef)

Credential(apiKey, provider) ==
    IF apiKey # Undef /\ apiKey # JStr(<<>>) THEN <<apiKey>>
    ELSE IF provider = "token" THEN <<JStr(<<"tok">>)>>
    ELSE <<>>

\* C26: the bearer credential of a request is the static apiKey whenever one
\* is configured - getAuthToken is then never called - and otherwise the
\* value getAuthToken returns; the Authorization header is attached only when
\* that token is non-empty, by request and by streamMessage alike; and
\* nothing is fetched when getAuthToken throws.
C26_BearerCredential ==
    /\ \A i \in 1..Len(rest.sent) :
           rest.sent[i].authorization = Credential(rest.apiKey, rest.provider)
    /\ Credential(rest.apiKey, rest.provider) = <<rest.apiKey>> => rest.consulted = 0
    /\ rest.provider = "throws" /\ rest.consulted > 0 => rest.sent = <<>>
    /\ rest.provider = "absent" => rest.consulted = 0

\* without a static key a request and a streaming call have both sent the
\* token of the provider
C26_Witness ==
    /\ rest.apiKey \in {Undef, JStr(<<>>)}
    /\ rest.consulted = 2
    /\ \E i, j \in 1..Len(rest.sent) :
           /\ rest.sent[i] = [kind |-> "request", authorization |-> <<JStr(<<"tok">>)>>]
           /\ rest.sent[j] = [kind |-> "stream", authorization |-> <<JStr(<<"tok">>)>>]

----------------------------------------------------------------------------
(* The session of a NonefinitySimpleClient (SpecSession, SpecChats)         *)

\* what localStorage holds when it mirrors this session id
Stored(sessionId) == IF sessionId = JNull THEN <<>> ELSE <<sessionId>>

Sessionless == {p \in Procs : simple.proc[p].kind = "chat" /\ ~simple.proc[p].had}

\* C30: concurrent chat() calls on a client that has no session create
\* exactly one session, and each of them streams its message to that
\* session and resolves with its id.
C30_OneSessionForAll ==
    /\ simple.created <= 1
    /\ \A p \in Sessionless :
           /\ simple.proc[p].pc \in {"streaming", "resolved"} =>
                  simple.proc[p].target = SessionIdOf(1)
           /\ simple.proc[p].pc = "resolved" => simple.proc[p].result = SessionIdOf(1)

\* the part that holds: each chat() call that found no session creates at
\* most one, and a call that finds a session streams to it and creates none
C30_OnePerCall ==
    /\ simple.created <= Cardinality(Sessionless)
    /\ \A p \in Procs :
           simple.proc[p].had =>
               \E k \in 1..simple.created : simple.proc[p].target = SessionIdOf(k)

----------------------------------------------------------------------------
(* The reports to onError, and the two tool lists (SpecChat)                *)

\* the number of error events the server has sent to slot s
ServerErrors(s) ==
    Cardinality({k \in 1..call[s].nev : call[s].sink[k].event = <<"error">>})

\* C28: for one failed turn onError is called at most once.  A transport
\* failure that streamMessage forwards as a synthetic error event and throws
\* again is reported to onError once: besides one call for each error event
\* of the server, the turn makes one call.
C28_OnErrorOnce ==
    \A s \in Slots :
        turn[s].pc = "ended" /\ call[s].st = "rejected" =>
            Len(onErrorCalls) <= ServerErrors(s) + 1

\* the part that holds: a turn whose stream was read to its end calls
\* onError once for each error event of the server
C28_ResolvedPart ==
    \A s \in Slots :
        turn[s].pc = "ended" /\ call[s].st = "resolved" =>
            Len(onErrorCalls) = ServerErrors(s)

\* what a failed turn does: the failure is reported twice, as the same message
C28_ReportedTwice ==
    \A s \in Slots :
        turn[s].pc = "ended" /\ call[s].st = "rejected" /\ call[s].thrown[1].isError =>
            /\ Len(onErrorCalls) = ServerErrors(s) + 2
            /\ onErrorCalls[Len(onErrorCalls)] = call[s].thrown[1]
            /\ onErrorCalls[Len(onErrorCalls) - 1].message = call[s].thrown[1].message

\* the result an entry of accumulatedTools keeps for this content of the Map
Kept(content) ==
    IF content.t \in {"undefined", "str"} THEN content ELSE JStr(Stringify(content))

\* the two lists have the same entries in the same order
ListsAgree(tools, acc) ==
    /\ Len(tools) = Len(acc)
    /\ \A i \in 1..Len(tools) :
           /\ tools[i].name = acc[i].name
           /\ tools[i].args = acc[i].arguments
           /\ Kept(tools[i].content) = acc[i].result

\* C29: after every event of a turn the tool list shown in
\* streamingState.tools and accumulatedTools agree: as many entries, in the
\* same order, each with the same name, arguments and result (a result that
\* is no string being stringified in accumulatedTools).
C29_ToolListsAgree ==
    \A s \in Slots :
        ui # "none" /\ Reading(s) =>
            ListsAgree(streamingState.tools, turn[s].accumulatedTools)

\* the part that holds: the lists agree while the stream has brought, besides
\* text, one tool call and then at most one result that names the tool
C29_CallsPart ==
    \A s \in Slots :
        /\ ui # "none" /\ Reading(s)
        /\ \A k \in 1..Len(call[s].sink) : call[s].sink[k] \in {E_HI, E_CALL_ID, E_RES}
        /\ \A j, k \in 1..Len(call[s].sink) :
               call[s].sink[j] = call[s].sink[k] /\ call[s].sink[j] # E_HI => j = k
        /\ \A k \in 1..Len(call[s].sink) :
               call[s].sink[k] = E_RES => \E j \in 1..(k - 1) : call[s].sink[j] = E_CALL_ID
        => ListsAgree(streamingState.tools, turn[s].accumulatedTools)

\* a result that carries the id of its call and no name: the entry shown is
\* renamed "unknown", the entry of accumulatedTools keeps the name of the call
C29_Renamed ==
    \A s \in Slots :
        ui # "none" /\ Reading(s) /\ call[s].sink = <<E_CALL_ID, E_RES_ID>> =>
            /\ streamingState.tools[1].name = JStr(UNKNOWN)
            /\ turn[s].accumulatedTools[1].name = JStr(<<"search">>)

----------------------------------------------------------------------------
(* A createSession that fails (SpecSession)                                 *)

\* call p of createSession(), or of chat() on its way through it, fails in this step
CreateFails(p) ==
    /\ simple.proc[p].pc = "creating"
    /\ simple'.proc[p].pc = "rejected"

\* C31: when createSession fails, on a response that is not 2xx or on a 2xx
\* response without a session id, getSessionId() and the stored session id
\* are what they were before the call.
C31_FailedCreateKeepsSession ==
    [][\A p \in Procs :
           CreateFails(p) =>
               /\ simple'.sessionId = simple.sessionId
               /\ simple'.storage = simple.storage]_vars

\* the part that holds: a failing createSession leaves the stored id alone,
\* and one that fails on the status leaves this.sessionId alone too
C31_StoredPart ==
    [][\A p \in Procs :
           CreateFails(p) =>
               /\ simple'.storage = simple.storage
               /\ simple'.sessionId \in {simple.sessionId, Undef}]_vars

----------------------------------------------------------------------------
(* What request reports as a failure (SpecRequest)                          *)

\* the call got a 2xx response, whatever its body
TwoHundred(r) ==
    /\ r.reply # <<>>
    /\ r.reply[1].rejects = <<>>
    /\ r.reply[1].ok

\* the body of the response is an object that says success: false
SaysFailed(r) ==
    /\ Answered(r)
    /\ r.reply[1].json[1].success = JBool(FALSE)

\* C32: request reports success: false only for a response that is not 2xx,
\* a network failure or a body with an explicit success: false; every other
\* 2xx response, one with an empty body or a JSON null body included, is
\* reported with success: true.
C32_FailureOnlyWhenFailed ==
    \A i \in 1..Len(rest.results) :
        LET r == rest.results[i]
        IN  TwoHundred(r) /\ ~SaysFailed(r) => r.out.success = JBool(TRUE)

\* the part that holds: a 2xx response whose body is a JSON object is
\* reported with success: true unless the object has a success field of its own
C32_ObjectPart ==
    \A i \in 1..Len(rest.results) :
        LET r == rest.results[i]
        IN  /\ TwoHundred(r) /\ Answered(r) /\ r.reply[1].json[1].success = Undef =>
                   r.out.success = JBool(TRUE)
            /\ TwoHundred(r) /\ ~Answered(r) => Failure(r.out)

----------------------------------------------------------------------------
(* A callback that throws (SpecSink)                                        *)

\* the calls of the callback that processSSELine made: all of them but the
\* one of the catch block of the streaming call
FrameCalls(s) == Len(call[s].sink) - (IF call[s].st = "rejected" THEN 1 ELSE 0)

\* C33: processSSELine calls the sink at most once per frame, also when the
\* sink throws while it handles the decoded event: what the sink throws is
\* not turned into a second, parse-error event for the same frame.
C33_OnceWhenSinkThrows ==
    \A s \in Slots : FrameCalls(s) <= call[s].nev

\* the part that holds: a frame makes at most two calls, the second one
\* with the frame's own data as raw and what the sink threw as parseError,
\* and after a callback threw outside a try block nothing more is read
C33_TwicePart ==
    \A s \in Slots :
        /\ FrameCalls(s) <= 2 * call[s].nev
        /\ FrameCalls(s) = 2 /\ Len(call[s].recv) = 1 =>
                   /\ KindOf(call[s].sink[1]) \in call[s].throwsOn
                   /\ call[s].sink[2] = Caught(Front(Front(call[s].recv[1])), impl, "Error: sink")
        /\ call[s].cause = "sink" =>
               /\ call[s].st = "rejected"
               /\ call[s].thrown = <<SinkError>>

----------------------------------------------------------------------------
(* chatComplete against the accumulator (SpecComplete)                      *)

\* the text of the frames received, in a row
RECURSIVE Joined(_)
Joined(frames) == IF frames = <<>> THEN <<>> ELSE frames[1] \o Joined(Tail(frames))

\* the final assistant content the accumulator of the hook computes for
\* the frames received, from the events NonefinityClient decodes them to
AccumulatorContent(frames) ==
    Replay(EmptyW, OneChunkEvents(Joined(frames), "full"),
           [k \in 1..Len(frames) |-> 0], "hook").accumulatedContent

\* C34: chatComplete returns as text the final assistant content the
\* accumulator computes for the same event stream: the contents of delta
\* ai_result events appended in order, the content of an ai_result event
\* that is not a delta taking the place of what was accumulated before it.
C34_CompleteIsAccumulated ==
    \A s \in Slots :
        call[s].st = "resolved" =>
            chatComplete(<<>>, call[s].sink) = AccumulatorContent(call[s].recv)

\* every answer of the stream after the first one is a delta with a content
\* field of its own
DeltasOnly(frames) ==
    /\ \A k \in 1..Len(frames) :
           frames[k] \in {Frame("ai_result", T_HI), Frame("ai_result", T_THERE),
                          Frame("tool_calls", T_CALL), Frame("ai_result", T_END)}
    /\ \A k \in 2..Len(frames) : frames[k] # Frame("ai_result", T_HI)

\* the part that holds: the two texts agree on a stream where nothing is
\* to be replaced, and chatComplete returns every content in order
C34_DeltaPart ==
    \A s \in Slots :
        call[s].st = "resolved" /\ DeltasOnly(call[s].recv) =>
            chatComplete(<<>>, call[s].sink) = AccumulatorContent(call[s].recv)

----------------------------------------------------------------------------
(* The list of messages (SpecTurns)                                         *)

\* the number of user messages in a list of messages
UserCount(ms) == Cardinality({i \in 1..Len(ms) : ms[i].role = "user"})

AssistantCount(ms) == Cardinality({i \in 1..Len(ms) : ms[i].role = "assistant"})

\* this step accepts a sendMessage for turn s
Accepts(s) == turn[s].pc = "idle" /\ turn'[s].pc = "streaming"

\* this step adds the assistant message of turn s
Answers(s) == turn[s].pc = "streaming" /\ turn'[s].pc = "saving"

\* the list grows by one user message per accepted sendMessage, and by the
\* assistant message of a turn whose stream has ended with content
GrowsByTurns ==
    /\ \A s \in Slots :
           Accepts(s) =>
               /\ Len(messages') = Len(messages) + 1
               /\ Last(messages') = UserMessage(turn'[s].userText)
               /\ UserCount(messages') = s
    /\ \A s \in Slots :
           Answers(s) =>
               /\ call'[s].st = "resolved"
               /\ turn'[s].accumulatedContent # <<>>
               /\ messages' = Append(messages,
                                     AssistantMessage(turn'[s].accumulatedContent,
                                                      turn'[s].accumulatedTools))
    /\ (\A s \in Slots : ~Accepts(s) /\ ~Answers(s)) => messages' = messages
    /\ AssistantCount(messages') <= Cardinality({s \in Slots : turn'[s].pc \in {"saving", "ended"}})

\* the assistant message of turn s is put right after the user message of turn s
FollowsOwnUser(s) ==
    Answers(s) => Last(messages).role = "user" /\ UserCount(messages) = s

\* C35: the list of messages grows by exactly one user message per accepted
\* sendMessage and by at most one assistant message per turn, added only
\* after the stream of that turn has ended with content that is not empty;
\* every assistant message in the list directly follows the user message of
\* its own turn.
C35_MessagesByTurn ==
    [][GrowsByTurns /\ \A s \in Slots : FollowsOwnUser(s)]_vars

\* the part that holds: how the list grows
C35_GrowthPart == [][GrowsByTurns]_vars

----------------------------------------------------------------------------
(* Frames without an event line or without a data line (SpecStream)         *)

\* the frame has a line of this prefix with something behind the prefix
HasLine(frame, prefix) == LineStarts(frame, prefix) # {}

----------------------------------------------------------------------------
(* The frame left in the buffer when the stream ends (SpecStream)           *)

\* the text behind the last delimiter of the body: what the buffer retains
\* when the stream ends
Remainder(body) == Last(ScanFrames(body, 1, 1))

\* C37: when the stream ends while the retained buffer is not blank (the
\* last frame lacks its blank-line delimiter), the remainder is decoded as
\* one final complete frame: the events delivered are those the same body
\* delivers with the delimiter behind it.  A blank remainder gives no event.
C37_RemainderDecoded ==
    \A s \in Slots :
        server = "raw" /\ call[s].st = "resolved" =>
            /\ call[s].buffer = Remainder(call[s].body)
            /\ call[s].sink = OneChunkEvents(call[s].body \o <<NL, NL>>, impl)
            /\ Len(call[s].sink) =
                   Len(SelectSeq(Front(ScanFrames(call[s].body, 1, 1)), CarriesLine))
                   + (IF CarriesLine(Remainder(call[s].body)) THEN 1 ELSE 0)
            /\ Trim(Remainder(call[s].body)) = <<>> =>
                   call[s].sink = OneChunkEvents(SubSeq(call[s].body, 1,
                                      Len(call[s].body) - Len(Remainder(call[s].body))), impl)

\* the body "event: {}\n\ndata: {}" was read to its end in chunks: the
\* frame without delimiter was in the buffer at the end and gave the last event
C37_Witness ==
    \E s \in Slots :
        /\ server = "raw" /\ call[s].st = "resolved"
        /\ call[s].body = <<EV, T_EMPTY, NL, NL, DA, T_EMPTY>>
        /\ call[s].buffer = <<DA, T_EMPTY>>
        /\ call[s].split
        /\ Last(call[s].sink) = Event(<<"message">>, Obj0)

----------------------------------------------------------------------------
(* The synthetic error event comes last (SpecStream)                        *)

\* the streaming call of slot s fails in this step
Fails(s) == call[s].st # "rejected" /\ call'[s].st = "rejected"

\* s is a prefix of t
IsPrefix(s, t) == Len(s) <= Len(t) /\ SubSeq(t, 1, Len(s)) = s

\* C38: in streamMessage and streamChat the synthetic error event is the
\* last event delivered to the sink for the call: no event decoded from a
\* frame is delivered after it, and every event decoded before the failure
\* was delivered before it.
C38_SyntheticErrorLast ==
    [][\A s \in Slots :
           /\ Fails(s) =>
                  /\ call'[s].sink # <<>>
                  /\ Last(call'[s].sink) = SyntheticError(call'[s].thrown[1], impl)
                  /\ IsPrefix(call[s].sink, Front(call'[s].sink))
                  /\ Len(Front(call'[s].sink)) >= call'[s].nev
           /\ call[s].st = "rejected" => call'[s] = call[s]]_vars

\* a read failed after one frame had given its event and while the next
\* frame was in the buffer: the sink holds that event and then the error
C38_Witness ==
    \E s \in Slots :
        /\ call[s].st = "rejected" /\ call[s].cause = "read"
        /\ call[s].buffer = <<DA, T_EMPTY>>
        /\ Len(call[s].sink) = 2
        /\ call[s].sink[1] = Event(<<T_EMPTY>>, Obj0)
        /\ call[s].sink[2] = SyntheticError(call[s].thrown[1], impl)

\* the same order with a callback that throws: the call of the catch block
\* is the last call, whatever the callback does with it
C38_ThrowingSink ==
    [][\A s \in Slots :
           /\ Fails(s) =>
                  /\ call'[s].sink # <<>>
                  /\ KindOf(Last(call'[s].sink)) = "error"
                  /\ IsPrefix(call[s].sink, Front(call'[s].sink))
                  /\ Len(Front(call'[s].sink)) >= call'[s].nev
           /\ call[s].st = "rejected" => call'[s] = call[s]]_vars

----------------------------------------------------------------------------
(* Extracted content and the raw payload (SpecComplete)                     *)

\* the payload of a frame of the answers server
PayloadText(frame) == frame[5]

\* the parsed payload: what JSON.parse gives, parsed once more when it is a
\* string that holds a JSON text
ParsedPayload(text) ==
    LET first == JSONValue(text)
    IN  IF first.t = "str" /\ JSONParse(first.v).ok THEN JSONParse(first.v).value
        ELSE first

\* the content found in a parsed payload: its content field, else the
\* content of the last element of model.messages; <<>> when there is none
FoundContent(data) ==
    LET direct == Get(data, "content")
        msgs == Get(Get(data, "model"), "messages")
    IN  IF Truthy(direct) THEN <<direct>>
        ELSE IF msgs.t = "arr" /\ msgs.v # <<>> /\ Truthy(Get(Last(msgs.v), "content"))
             THEN <<Get(Last(msgs.v), "content")>>
        ELSE <<>>

\* the event data the claim gives for a parsed payload
WithRaw(data) ==
    IF FoundContent(data) # <<>>
    THEN Obj([content |-> FoundContent(data)[1], raw |-> data])
    ELSE data

\* the frames that carry a payload to parse: all but the sentinels
Parsed(frame) == PayloadText(frame) \notin {T_START, T_END}

\* C39: in NonefinitySimpleClient, when content is extracted from a parsed
\* payload (its content field, else the content of the last element of
\* model.messages), the data of the event emitted holds the extracted
\* content and the complete parsed payload under raw; when no content is
\* found the parsed payload is emitted unchanged as the data of the event.
C39_ContentAndRaw ==
    \A s \in Slots :
        \A k \in 1..Len(call[s].recv) :
            Parsed(call[s].recv[k]) =>
                call[s].sink[k].data = WithRaw(ParsedPayload(PayloadText(call[s].recv[k])))

\* the part that holds: the same for every parsed payload but null
C39_NotNullPart ==
    \A s \in Slots :
        \A k \in 1..Len(call[s].recv) :
            /\ Parsed(call[s].recv[k]) /\ PayloadText(call[s].recv[k]) # T_NULL =>
                   call[s].sink[k].data = WithRaw(ParsedPayload(PayloadText(call[s].recv[k])))
            /\ PayloadText(call[s].recv[k]) = T_NULL =>
                   call[s].sink[k].data = ParseErrorData(<<T_NULL>>)

====
